---- MODULE Spec2Model ----
(***************************************************************************)
(* Model of the wedding-website scraping pipeline of The-Wedding-Concierge *)
(* backend: URL validation (api/routes/scrape.py), the tiered page fetcher *)
(* and browser session (services/scraper), the three scrape entry points   *)
(* and the background scrape job executor.                                 *)
(***************************************************************************)
EXTENDS Integers, Sequences, FiniteSets, TLC

VARIABLES
    vin,        \* input of the one call a function-level specification makes
    vout,       \* <<>> before that call, then <<its return value>>
    sess,       \* one WeddingScraper session followed fetch by fetch
    spc,        \* where that session's scrape() stands
    sreq,       \* _should_use_browser(url) for the URLs of that session
    slinks,     \* nav_links as discovery returned them
    stodo,      \* pages_to_scrape: the links the loop has still to fetch
    savail,     \* pages_available: the links kept for redirecting only
    spages,     \* the sub-page fetches started so far, in order
    scontent,   \* subpage_content: per nav name, the page whose text it holds
    sres,       \* what scrape() returned: "none" until it returns
    slast,      \* the tiers the last _fetch_page call used, and its result
    sblocked,   \* a lightweight response of the session was classified blocked
    sswitched,  \* ... and the browser fetch of that page returned a usable page
    calls,      \* the HTTP requests to the three scrape entry points
    jobs,       \* the scrape_jobs table: the committed row of each job id
    tasks,      \* the run_scrape_job task each start request has created
    lastPoll,   \* the response get_scrape_job_status returns in this step
    guests,     \* the guests table: opted_out and sms_consent of each guest
    logs,       \* the message_logs table, in the order of the commits
    blast,      \* the send_sms_blast request: its position and its session
    sched,      \* the scheduled message and the job that sends it
    retry,      \* the retry_failed_messages job: its position and its logs
    lastSms     \* the last SMS that Twilio accepted, and who sent it

validateVars == <<vin, vout>>
sessionVars  ==
    <<sess, spc, sreq, slinks, stodo, savail, spages, scontent, sres, slast,
      sblocked, sswitched>>
jobVars      == <<calls, jobs, tasks, lastPoll>>
smsVars      == <<guests, logs, blast, sched, retry, lastSms>>
vars == <<validateVars, sessionVars, jobVars, smsVars>>

(***************************************************************************)
(* URLs.  A URL is the triple urlparse() splits it into; urlparse lowers   *)
(* the case of the scheme and of the hostname, which Lower models.         *)
(***************************************************************************)
Schemes == {"http", "https", "HTTP", "ftp", "file", ""}

IPLiterals == {"127.0.0.1", "0.0.0.0", "::1", "169.254.169.254", "10.0.0.5",
               "192.168.1.1", "169.254.1.1", "224.0.0.1", "240.0.0.1",
               "8.8.8.8", "93.184.216.34", "fe80::1"}

DnsNames == {"localhost", "LOCALHOST", "metadata.google.internal", "metadata",
             "theknot.com", "www.zola.com", "example.org", "intranet.corp"}

Hostnames == {""} \cup DnsNames
             \cup {"127.0.0.1", "169.254.169.254", "10.0.0.5", "169.254.1.1",
                   "224.0.0.1", "240.0.0.1", "8.8.8.8", "::1"}

Lower(s) ==
    CASE s = "HTTP" -> "http"
      [] s = "LOCALHOST" -> "localhost"
      [] OTHER -> s

\* ipaddress.ip_address(ip).is_private / is_loopback / ... for the addresses
\* of the model
IPFlags(ip) ==
    CASE ip = "127.0.0.1"       -> {"private", "loopback"}
      [] ip = "::1"             -> {"private", "loopback"}
      [] ip = "0.0.0.0"         -> {"private"}
      [] ip = "10.0.0.5"        -> {"private"}
      [] ip = "192.168.1.1"     -> {"private"}
      [] ip = "169.254.169.254" -> {"private", "link_local"}
      [] ip = "169.254.1.1"     -> {"private", "link_local"}
      [] ip = "fe80::1"         -> {"private", "link_local"}
      [] ip = "224.0.0.1"       -> {"multicast"}
      [] ip = "240.0.0.1"       -> {"private", "reserved"}
      [] OTHER                  -> {}

ALLOWED_DOMAINS == {"theknot.com", "zola.com", "withjoy.com", "weddingwire.com",
                    "minted.com", "wedding.com", "joykitchen.com",
                    "theblacktiebride.com", "squarespace.com",
                    "weddingwebsite.com", "wix.com", "weebly.com"}

\* domain == allowed or domain.endswith("." + allowed), for the names of the model
IsAllowedDomain(domain) ==
    \/ domain \in ALLOWED_DOMAINS
    \/ domain = "www.zola.com"

is_private_ip(ip) ==
    IF ip \in IPLiterals
    THEN IPFlags(ip) \cap {"private", "loopback", "link_local", "reserved", "multicast"} # {}
    ELSE FALSE      \* ValueError: not an address

blocked_hostnames == {"localhost", "127.0.0.1", "0.0.0.0", "::1",
                      "metadata.google.internal", "169.254.169.254", "metadata"}

\* socket.getaddrinfo(hostname): status "ok" with the addresses it returns,
\* "gaierror", or "error" for any other exception (UnicodeError on an
\* over-long label)
DnsAddrs == {"93.184.216.34", "10.0.0.5", "127.0.0.1", "fe80::1"}
DnsAnswers ==
    {[status |-> st, addrs |-> {}] : st \in {"gaierror", "error"}}
    \cup {[status |-> "ok", addrs |-> a] : a \in (SUBSET DnsAddrs \ {{}})}

Urls == [scheme : Schemes, hostname : Hostnames]

Verdict(ok, reason) == [ok |-> ok, reason |-> reason]

validate_url_for_ssrf_nodns(url, dns) ==
    LET scheme   == Lower(url.scheme)
        hostname == Lower(url.hostname)
    IN  IF scheme \notin {"http", "https"}
        THEN Verdict(FALSE, "Only HTTP and HTTPS URLs are allowed")
        ELSE IF hostname = ""
        THEN Verdict(FALSE, "Invalid URL: no hostname")
        ELSE IF hostname \in blocked_hostnames
        THEN Verdict(FALSE, "Access to internal resources is not allowed")
        ELSE IF hostname \in IPLiterals
        THEN IF is_private_ip(hostname)
             THEN Verdict(FALSE, "Access to private IP addresses is not allowed")
             ELSE Verdict(TRUE, "")
        ELSE IF dns.status = "gaierror"
        THEN Verdict(TRUE, "")
        ELSE IF dns.status = "error"
        THEN Verdict(FALSE, "Invalid URL")
        ELSE IF \E ip \in dns.addrs : is_private_ip(ip)
        THEN Verdict(FALSE, "Access to private IP addresses is not allowed")
        ELSE Verdict(TRUE, "")

validate_url_for_ssrf_noblocklist(url, dns) ==
    LET scheme   == Lower(url.scheme)
        hostname == Lower(url.hostname)
    IN  IF scheme \notin {"http", "https"}
        THEN Verdict(FALSE, "Only HTTP and HTTPS URLs are allowed")
        ELSE IF hostname = ""
        THEN Verdict(FALSE, "Invalid URL: no hostname")
        ELSE IF hostname \in IPLiterals
        THEN IF is_private_ip(hostname)
             THEN Verdict(FALSE, "Access to private IP addresses is not allowed")
             ELSE Verdict(TRUE, "")
        ELSE IF dns.status = "gaierror"
        THEN Verdict(FALSE, "Could not resolve hostname")
        ELSE IF dns.status = "error"
        THEN Verdict(FALSE, "Invalid URL")
        ELSE IF \E ip \in dns.addrs : is_private_ip(ip)
        THEN Verdict(FALSE, "Access to private IP addresses is not allowed")
        ELSE Verdict(TRUE, "")

validate_url_for_ssrf_allowlisted(url, dns) ==
    LET scheme   == Lower(url.scheme)
        hostname == Lower(url.hostname)
    IN  IF scheme \notin {"http", "https"}
        THEN Verdict(FALSE, "Only HTTP and HTTPS URLs are allowed")
        ELSE IF hostname = ""
        THEN Verdict(FALSE, "Invalid URL: no hostname")
        ELSE IF hostname \in blocked_hostnames
        THEN Verdict(FALSE, "Access to internal resources is not allowed")
        ELSE IF hostname \in IPLiterals
        THEN IF is_private_ip(hostname)
             THEN Verdict(FALSE, "Access to private IP addresses is not allowed")
             ELSE Verdict(IsAllowedDomain(hostname), "")
        ELSE IF dns.status = "gaierror"
        THEN Verdict(FALSE, "Could not resolve hostname")
        ELSE IF dns.status = "error"
        THEN Verdict(FALSE, "Invalid URL")
        ELSE IF \E ip \in dns.addrs : is_private_ip(ip)
        THEN Verdict(FALSE, "Access to private IP addresses is not allowed")
        ELSE Verdict(IsAllowedDomain(hostname), "")

validate_url_for_ssrf(url, dns) ==
    LET scheme   == Lower(url.scheme)
        hostname == Lower(url.hostname)
    IN  IF scheme \notin {"http", "https"}
        THEN Verdict(FALSE, "Only HTTP and HTTPS URLs are allowed")
        ELSE IF hostname = ""
        THEN Verdict(FALSE, "Invalid URL: no hostname")
        ELSE IF hostname \in blocked_hostnames
        THEN Verdict(FALSE, "Access to internal resources is not allowed")
        ELSE IF hostname \in IPLiterals
        THEN IF is_private_ip(hostname)
             THEN Verdict(FALSE, "Access to private IP addresses is not allowed")
             ELSE Verdict(TRUE, "")      \* allow-list is logged, not enforced
        ELSE IF dns.status = "gaierror"
        THEN Verdict(FALSE, "Could not resolve hostname")
        ELSE IF dns.status = "error"
        THEN Verdict(FALSE, "Invalid URL")
        ELSE IF \E ip \in dns.addrs : is_private_ip(ip)
        THEN Verdict(FALSE, "Access to private IP addresses is not allowed")
        ELSE Verdict(TRUE, "")


(***************************************************************************)
(* The scraper session: WeddingScraper and the StealthBrowser it owns.     *)
(* browser/pw/br/ctx say which references are not None; rDriver, rBrowser, *)
(* rContext and rPage say what is really open.                             *)
(***************************************************************************)
MaxSubpages == 2

NewSession ==
    [client |-> "open", browser |-> FALSE, use_browser |-> FALSE,
     pw |-> FALSE, br |-> FALSE, ctx |-> FALSE,
     rDriver |-> FALSE, rBrowser |-> FALSE, rContext |-> FALSE, rPage |-> FALSE]

NoSession == [NewSession EXCEPT !.client = "none"]

\* A response body: its length and whether it holds a challenge-page marker.
\* NoHtml is None.
HtmlLens == {0, 200, 499, 500, 6000}
NoHtml == [len |-> -1, marker |-> FALSE]
HtmlValues == [len : HtmlLens, marker : BOOLEAN] \cup {NoHtml}

BLOCKED_MIN_LEN == 500

Truthy(html) == html.len > 0

_is_blocked_response_lenonly(html) ==
    \/ ~Truthy(html)
    \/ html.len < BLOCKED_MIN_LEN

\* WeddingScraper._is_blocked_response
_is_blocked_response(html) ==
    \/ ~Truthy(html)
    \/ html.len < BLOCKED_MIN_LEN
    \/ html.marker

Usable(html) == Truthy(html) /\ ~_is_blocked_response(html)

\* _fetch_with_httpx: the text of the response (also of a 403 with a body),
\* None on an httpx.HTTPError, or an exception that is not an httpx.HTTPError
HttpxOutcomes ==
    {[exc |-> FALSE, html |-> h] : h \in HtmlValues}
    \cup {[exc |-> TRUE, html |-> NoHtml]}

\* StealthBrowser.start: how far it gets
StartOutcomes == {"ok", "driver_error", "not_installed", "launch_error",
                  "context_error", "stealth_error"}

\* StealthBrowser.fetch_page once a page is open: the rendered HTML or None
\* (any exception of the navigation is caught), and whether page.close() in
\* the finally block raises
PageOutcomes == [html : HtmlValues, close_raises : BOOLEAN]

FetchInputs == [hx : HttpxOutcomes, so : StartOutcomes, po : PageOutcomes]

\* StealthBrowser.start; exc is "none", "not_available"
\* (PlaywrightNotAvailableError) or "error"
StealthBrowser_start(s, so) ==
    IF s.br THEN [s |-> s, exc |-> "none"]
    ELSE CASE so = "ok" ->
                [s |-> [s EXCEPT !.pw = TRUE, !.br = TRUE, !.ctx = TRUE,
                                 !.rDriver = TRUE, !.rBrowser = TRUE,
                                 !.rContext = TRUE],
                 exc |-> "none"]
           [] so = "driver_error" ->
                [s |-> s, exc |-> "error"]
           [] so = "not_installed" ->
                [s |-> [s EXCEPT !.pw = FALSE, !.br = FALSE, !.rDriver = TRUE],
                 exc |-> "not_available"]
           [] so = "launch_error" ->
                [s |-> [s EXCEPT !.pw = TRUE, !.rDriver = TRUE], exc |-> "error"]
           [] so = "context_error" ->
                [s |-> [s EXCEPT !.pw = TRUE, !.br = TRUE,
                                 !.rDriver = TRUE, !.rBrowser = TRUE],
                 exc |-> "error"]
           [] so = "stealth_error" ->
                [s |-> [s EXCEPT !.pw = TRUE, !.br = TRUE, !.ctx = TRUE,
                                 !.rDriver = TRUE, !.rBrowser = TRUE,
                                 !.rContext = TRUE],
                 exc |-> "error"]

\* StealthBrowser.fetch_page; exc as for start
StealthBrowser_fetch_page(s, so, po) ==
    LET st == IF ~s.ctx THEN StealthBrowser_start(s, so)
                        ELSE [s |-> s, exc |-> "none"]
    IN  IF st.exc # "none"
        THEN [s |-> st.s, html |-> NoHtml, exc |-> st.exc]
        ELSE IF ~st.s.ctx
        THEN \* self._context is None: the AttributeError is caught, no page
             [s |-> st.s, html |-> NoHtml, exc |-> "none"]
        ELSE IF po.close_raises
        THEN [s |-> [st.s EXCEPT !.rPage = TRUE], html |-> NoHtml, exc |-> "error"]
        ELSE [s |-> st.s, html |-> po.html, exc |-> "none"]

\* WeddingScraper._fetch_with_browser: exc is TRUE when it raises
_fetch_with_browser(s, so, po) ==
    LET s1 == [s EXCEPT !.browser = TRUE]
        st == IF ~s.browser THEN StealthBrowser_start(s1, so)
                            ELSE [s |-> s1, exc |-> "none"]
        fp == IF st.exc = "none"
              THEN StealthBrowser_fetch_page(st.s, so, po)
              ELSE [s |-> st.s, html |-> NoHtml, exc |-> st.exc]
    IN  IF fp.exc = "not_available"
        THEN [s |-> fp.s, html |-> NoHtml, exc |-> FALSE]
        ELSE [s |-> fp.s, html |-> fp.html, exc |-> (fp.exc = "error")]

\* html is the page returned, NoHtml when res is not "html"
FetchResult(s, res, httpx, browser, hxBlocked, html) ==
    [s |-> s, res |-> res, httpx |-> httpx, browser |-> browser,
     hxBlocked |-> hxBlocked, html |-> html]

\* The browser tier of _fetch_page, after the lightweight tier or without it
BrowserTier(s, in, httpx, hxBlocked) ==
    LET b == _fetch_with_browser(s, in.so, in.po)
    IN  IF b.exc
        THEN FetchResult(b.s, "raise", httpx, TRUE, hxBlocked, NoHtml)
        ELSE IF Usable(b.html)
        THEN FetchResult([b.s EXCEPT !.use_browser = TRUE], "html", httpx, TRUE,
                         hxBlocked, b.html)
        ELSE FetchResult(b.s, "none", httpx, TRUE, hxBlocked, NoHtml)

_fetch_page_resetting(s, req, in) ==
    IF s.use_browser \/ req
    THEN LET r == BrowserTier(s, in, FALSE, FALSE)
         IN  [r EXCEPT !.s.use_browser = (r.res = "html")]
    ELSE IF in.hx.exc
    THEN FetchResult(s, "raise", TRUE, FALSE, FALSE, NoHtml)
    ELSE IF Usable(in.hx.html)
    THEN FetchResult(s, "html", TRUE, FALSE, FALSE, in.hx.html)
    ELSE BrowserTier(s, in, TRUE,
                     Truthy(in.hx.html) /\ _is_blocked_response(in.hx.html))

\* WeddingScraper._fetch_page(url): res is "html", "none" (None) or "raise"
_fetch_page(s, req, in) ==
    IF s.use_browser \/ req
    THEN BrowserTier(s, in, FALSE, FALSE)
    ELSE IF in.hx.exc
    THEN FetchResult(s, "raise", TRUE, FALSE, FALSE, NoHtml)
    ELSE IF Usable(in.hx.html)
    THEN FetchResult(s, "html", TRUE, FALSE, FALSE, in.hx.html)
    ELSE BrowserTier(s, in, TRUE,
                     Truthy(in.hx.html) /\ _is_blocked_response(in.hx.html))

\* StealthBrowser.close
StealthBrowser_close(s) ==
    LET s1 == IF s.ctx THEN [s EXCEPT !.ctx = FALSE, !.rContext = FALSE,
                                      !.rPage = FALSE]
                       ELSE s
        s2 == IF s1.br THEN [s1 EXCEPT !.br = FALSE, !.rBrowser = FALSE,
                                       !.rContext = FALSE, !.rPage = FALSE]
                       ELSE s1
    IN  IF s2.pw THEN [s2 EXCEPT !.pw = FALSE, !.rDriver = FALSE] ELSE s2

\* WeddingScraper.close
WeddingScraper_close(s) ==
    LET s1 == [s EXCEPT !.client = "closed"]
    IN  IF s1.browser THEN [StealthBrowser_close(s1) EXCEPT !.browser = FALSE]
                      ELSE s1


(***************************************************************************)
(* The requests, the job table and the executor tasks before any request.  *)
(***************************************************************************)
MaxCalls == 1     \* requests followed from arrival to response in Spec
MaxJobs == 2      \* concurrent start_scrape_job requests in JobsSpec
Calls == 1..MaxCalls
JobCalls == 1..MaxJobs
Slots == Calls \cup JobCalls

NoVerdict == Verdict(FALSE, "<none>")
NoResponse == [status |-> 0, detail |-> "<none>"]
NoInput == [url |-> [scheme |-> "", hostname |-> ""],
            dns |-> [status |-> "gaierror", addrs |-> {}]]

IdleCall ==
    [kind |-> "none", pc |-> "idle", in |-> NoInput, nvalid |-> 0,
     verdict |-> NoVerdict, response |-> NoResponse, sess |-> NoSession,
     scraped |-> FALSE, job |-> 0]

NoPoll == [job_id |-> 0, http |-> 0, status |-> "<none>", progress |-> 0,
           message |-> "null", platform |-> "null", data |-> "null",
           preview |-> "null", error |-> "null"]

\* A job id without a row, and a request that has created no task.  The
\* uuid4 of a new row is modelled by the number of the request creating it.
NoJob ==
    [status |-> "absent", progress |-> 0, message |-> "null",
     platform |-> "null", scraped_data |-> "null", preview_data |-> "null",
     error |-> "null"]

NoTask ==
    [job_id |-> 0, in |-> NoInput, pc |-> "none", sess |-> NoSession,
     scraped |-> FALSE, raised |-> FALSE, crashed |-> FALSE,
     payload |-> "none", dbfail |-> FALSE]

JobIds == {j \in Slots : jobs[j].status # "absent"}

JobsIdle ==
    /\ calls = [c \in Slots |-> IdleCall]
    /\ jobs = [j \in Slots |-> NoJob]
    /\ tasks = [c \in Slots |-> NoTask]
    /\ lastPoll = NoPoll

(***************************************************************************)
(* SMS: the guests and message_logs tables, the blast request, the job     *)
(* that sends the scheduled message and the retry job.                     *)
(***************************************************************************)
MaxGuests == 2

MaxLogs == 1

MaxResends == 4

MAX_RETRIES == 3

Guests == 1..MaxGuests

Guest(opted_out, sms_consent) == [opted_out |-> opted_out, sms_consent |-> sms_consent]

\* A row of message_logs; sid says whether twilio_sid is set, and resends
\* counts the send_sms calls retry_failed_messages has made for the row
MessageLog(guest, status, sid) ==
    [guest |-> guest, status |-> status, sid |-> sid, retry_count |-> 0, resends |-> 0]

IdleBlast == [pc |-> "idle", todo |-> <<>>, pending |-> <<>>]

NoScheduledMessage ==
    [status |-> "none", ids |-> {}, pc |-> "idle", todo |-> <<>>, pending |-> <<>>,
     sent_count |-> 0, failed_count |-> 0]

IdleRetry == [pc |-> "idle", todo |-> <<>>]

NoSms == [guest |-> 0, by |-> "none", opted |-> FALSE]

SmsIdle ==
    /\ guests = [g \in Guests |-> Guest(FALSE, FALSE)]
    /\ logs = <<>>
    /\ blast = IdleBlast
    /\ sched = NoScheduledMessage
    /\ retry = IdleRetry
    /\ lastSms = NoSms

(***************************************************************************)
(* ScrapeSpec: one scraper session, from WeddingScraper() through the      *)
(* fetches of scrape() to close(), one _fetch_page call per step.          *)
(***************************************************************************)
\* The error payloads of scrape(): the main page could not be fetched (with
\* the text for a bot-protected platform, or the general one), or parsing
\* and assembling raised
ErrorPayloads == {"fetch_error", "bot_error", "parse_error"}

RootError(req) == IF req THEN "bot_error" ELSE "fetch_error"

ErrorText(res) ==
    CASE res = "fetch_error" -> "Failed to fetch wedding website."
      [] res = "bot_error" -> "This website has bot protection that requires a browser."
      [] res = "parse_error" -> "Failed to parse wedding website: <exception>"
      [] OTHER -> "null"

NoFetch == [httpx |-> FALSE, browser |-> FALSE, hxBlocked |-> FALSE,
            res |-> "none", priorBlocked |-> FALSE, priorSwitched |-> FALSE,
            n |-> 0]

\* A name is the sequence of its word fragments ("our photos" is
\* our.photo.s), so that "skip in page_name_lower" is a test for a
\* contiguous part.  The nav names of the model: one page to fetch, one
\* whose name holds a skip keyword.  A link is its URL, numbered in
\* discovery order, and its name.
NavNames == {<<"travel">>, <<"our", "photo", "s">>}

skip_keywords == {<<"photo", "s">>, <<"photo">>, <<"gallery">>, <<"registry">>,
                  <<"gift">>, <<"gift", "s">>}

\* skip in page_name_lower
Contains(name, skip) ==
    \E i \in 0..(Len(name) - Len(skip)) : SubSeq(name, i + 1, i + Len(skip)) = skip

\* any(skip in page_name_lower for skip in skip_keywords)
HasSkipKeyword(name) == \E skip \in skip_keywords : Contains(name, skip)

NavLinkLists ==
    UNION {{[i \in 1..n |-> [url |-> i, name |-> f[i]]] : f \in [1..n -> NavNames]} :
              n \in 0..MaxSubpages}

NoContent == [n \in NavNames |-> 0]

SessionIdle ==
    /\ sess = NoSession
    /\ spc = "idle"
    /\ sreq = FALSE
    /\ slinks = <<>>
    /\ stodo = <<>>
    /\ savail = <<>>
    /\ spages = <<>>
    /\ scontent = NoContent
    /\ sres = "none"
    /\ slast = NoFetch
    /\ sblocked = FALSE
    /\ sswitched = FALSE

\* The record of a _fetch_page call, with what the session had seen before it
Fetched(r) ==
    /\ slast' = [httpx |-> r.httpx, browser |-> r.browser,
                 hxBlocked |-> r.hxBlocked, res |-> r.res,
                 priorBlocked |-> sblocked, priorSwitched |-> sswitched,
                 n |-> slast.n + 1]
    /\ sblocked' = (sblocked \/ r.hxBlocked)
    /\ sswitched' = (sswitched \/ (r.hxBlocked /\ r.res = "html"))
    /\ sess' = r.s

\* What one _fetch_page call of the session can return
FetchResults == {_fetch_page(sess, sreq, in) : in \in FetchInputs}

\* WeddingScraper(): a caller constructs the scraper for a URL
SConstruct ==
    /\ spc = "idle"
    /\ sess' = NewSession
    /\ sreq' \in BOOLEAN
    /\ spc' = "root"
    /\ UNCHANGED <<slinks, stodo, savail, spages, scontent, sres, slast,
                   sblocked, sswitched>>
    /\ UNCHANGED <<validateVars, smsVars, jobVars>>

SFetchRoot_lenient ==
    /\ spc = "root"
    /\ \E r \in FetchResults :
          /\ Fetched(r)
          /\ spc' = IF r.res = "raise" THEN "returned" ELSE "discover"
          /\ sres' = IF r.res = "raise" THEN "raise" ELSE "none"
    /\ UNCHANGED <<sreq, slinks, stodo, savail, spages, scontent>>
    /\ UNCHANGED <<validateVars, smsVars, jobVars>>

\* scrape(): the fetch of the main page; without HTML it returns an error
\* payload, and an exception of the fetch leaves scrape()
SFetchRoot ==
    /\ spc = "root"
    /\ \E r \in FetchResults :
          /\ Fetched(r)
          /\ spc' = IF r.res = "html" THEN "discover" ELSE "returned"
          /\ sres' = CASE r.res = "html" -> "none"
                       [] r.res = "none" -> RootError(sreq)
                       [] OTHER          -> "raise"
    /\ UNCHANGED <<sreq, slinks, stodo, savail, spages, scontent>>
    /\ UNCHANGED <<validateVars, smsVars, jobVars>>

SDiscover_fetchall ==
    /\ spc = "discover"
    /\ \/ \E links \in NavLinkLists :
             LET Skipped(l) == HasSkipKeyword(l.name)
             IN  /\ slinks' = links
                 /\ stodo' = links
                 /\ savail' = SelectSeq(links, Skipped)
                 /\ spc' = "sub"
                 /\ sres' = sres
       \/ /\ UNCHANGED <<slinks, stodo, savail>>
          /\ spc' = "returned"
          /\ sres' = "parse_error"
    /\ UNCHANGED <<sess, sreq, spages, scontent, slast, sblocked, sswitched>>
    /\ UNCHANGED <<validateVars, smsVars, jobVars>>

\* scrape(): parsing, discovery of nav_links and their separation into
\* pages_to_scrape and pages_available; an exception there is caught and
\* returned as an error payload
SDiscover ==
    /\ spc = "discover"
    /\ \/ \E links \in NavLinkLists :
             LET Skipped(l) == HasSkipKeyword(l.name)
                 Kept(l) == ~HasSkipKeyword(l.name)
             IN  /\ slinks' = links
                 /\ stodo' = SelectSeq(links, Kept)
                 /\ savail' = SelectSeq(links, Skipped)
                 /\ spc' = "sub"
                 /\ sres' = sres
       \/ /\ UNCHANGED <<slinks, stodo, savail>>
          /\ spc' = "returned"
          /\ sres' = "parse_error"
    /\ UNCHANGED <<sess, sreq, spages, scontent, slast, sblocked, sswitched>>
    /\ UNCHANGED <<validateVars, smsVars, jobVars>>

\* The sub-page fetches that have started and not finished
InFlight == {i \in DOMAIN spages : spages[i].st = "inflight"}

SStartSub_eager ==
    /\ spc = "sub"
    /\ stodo # <<>>
    /\ spages' = Append(spages, [url |-> Head(stodo).url, name |-> Head(stodo).name,
                                 st |-> "inflight"])
    /\ stodo' = Tail(stodo)
    /\ UNCHANGED <<sess, spc, sreq, slinks, savail, scontent, sres, slast,
                   sblocked, sswitched>>
    /\ UNCHANGED <<validateVars, smsVars, jobVars>>

\* scrape(): the loop takes the next link of pages_to_scrape and awaits
\* _fetch_page for it
SStartSub ==
    /\ spc = "sub"
    /\ stodo # <<>>
    /\ InFlight = {}
    /\ spages' = Append(spages, [url |-> Head(stodo).url, name |-> Head(stodo).name,
                                 st |-> "inflight"])
    /\ stodo' = Tail(stodo)
    /\ UNCHANGED <<sess, spc, sreq, slinks, savail, scontent, sres, slast,
                   sblocked, sswitched>>
    /\ UNCHANGED <<validateVars, smsVars, jobVars>>

SFetchSub_aborting ==
    /\ spc = "sub"
    /\ \E i \in InFlight, r \in FetchResults, extracted \in BOOLEAN :
          LET got == r.res = "html" /\ extracted
          IN  /\ Fetched(r)
              /\ spages' = [spages EXCEPT ![i].st = IF got THEN "stored" ELSE "skipped"]
              /\ scontent' = IF got
                             THEN [scontent EXCEPT ![spages[i].name] = spages[i].url]
                             ELSE scontent
              /\ spc' = IF r.res = "raise" \/ ~extracted THEN "returned" ELSE spc
              /\ sres' = IF r.res = "raise" \/ ~extracted THEN "parse_error" ELSE sres
    /\ UNCHANGED <<sreq, slinks, stodo, savail>>
    /\ UNCHANGED <<validateVars, smsVars, jobVars>>

\* scrape(): the awaited fetch of the sub-page returns; its text is stored
\* under the nav name, and None or an exception of the fetch or of
\* _extract_main_content skips the page
SFetchSub ==
    /\ spc = "sub"
    /\ \E i \in InFlight, r \in FetchResults, extracted \in BOOLEAN :
          LET got == r.res = "html" /\ extracted
          IN  /\ Fetched(r)
              /\ spages' = [spages EXCEPT ![i].st = IF got THEN "stored" ELSE "skipped"]
              /\ scontent' = IF got
                             THEN [scontent EXCEPT ![spages[i].name] = spages[i].url]
                             ELSE scontent
    /\ UNCHANGED <<spc, sreq, slinks, stodo, savail, sres>>
    /\ UNCHANGED <<validateVars, smsVars, jobVars>>

\* scrape(): the platform's assembler builds the bundle; an exception there
\* is caught and returned as an error payload
SAssemble ==
    /\ spc = "sub"
    /\ stodo = <<>>
    /\ InFlight = {}
    /\ spc' = "returned"
    /\ sres' \in {"bundle", "parse_error"}
    /\ UNCHANGED <<sess, sreq, slinks, stodo, savail, spages, scontent, slast,
                   sblocked, sswitched>>
    /\ UNCHANGED <<validateVars, smsVars, jobVars>>

\* the caller's finally block: await scraper.close()
SClose ==
    /\ spc = "returned"
    /\ sess' = WeddingScraper_close(sess)
    /\ spc' = "closed"
    /\ UNCHANGED <<sreq, slinks, stodo, savail, spages, scontent, sres, slast,
                   sblocked, sswitched>>
    /\ UNCHANGED <<validateVars, smsVars, jobVars>>

ScrapeNext ==
    \/ SConstruct
    \/ SFetchRoot
    \/ SDiscover
    \/ SStartSub
    \/ SFetchSub
    \/ SAssemble
    \/ SClose

ValidateIdle ==
    /\ vin = NoInput
    /\ vout = <<>>

ScrapeInit == SessionIdle /\ ValidateIdle /\ JobsIdle /\ SmsIdle

ScrapeSpec == ScrapeInit /\ [][ScrapeNext]_vars

\* C10 as stated: once a lightweight fetch has been classified as blocked,
\* every later _fetch_page call of the session goes straight to the browser
\* tier and issues no lightweight fetch.
CexC10_BlockedSwitchesSession ==
    slast.priorBlocked => (~slast.httpx /\ slast.browser)

\* C10 amended: once a lightweight fetch has been classified as blocked and
\* the browser fetch of that page has returned a usable page, every later
\* _fetch_page call of the session goes straight to the browser tier and
\* issues no lightweight fetch, whatever the browser fetches return.
ThmC10_SwitchedSessionStaysOnBrowser ==
    slast.priorSwitched => (~slast.httpx /\ slast.browser)

WitC10_BrowserFailsAfterSwitch ==
    /\ slast.priorSwitched
    /\ slast.browser
    /\ slast.res = "none"
    /\ slast.n = 3


(***************************************************************************)
(* scrape() as one step: every session state and result it can end in,    *)
(* computed from _fetch_page: the main page, then up to MaxSubpages        *)
(* sub-pages whose None or exception is skipped.                           *)
(***************************************************************************)
RootFetches(req) == {_fetch_page(NewSession, req, in) : in \in FetchInputs}

AfterSubpage(S, req) == {_fetch_page(s, req, in).s : s \in S, in \in FetchInputs}

RECURSIVE SubpageReach(_, _, _)
SubpageReach(S, req, k) ==
    IF k = 0 THEN S ELSE S \cup SubpageReach(AfterSubpage(S, req), req, k - 1)

WeddingScraper_scrape(req) ==
    {[s |-> r.s, res |-> "raise"] : r \in {x \in RootFetches(req) : x.res = "raise"}}
    \cup {[s |-> r.s, res |-> RootError(req)] :
                r \in {x \in RootFetches(req) : x.res = "none"}}
    \cup UNION {{[s |-> s2, res |-> x] :
                    s2 \in SubpageReach({r.s}, req, MaxSubpages),
                    x \in {"bundle", "parse_error"}} :
                r \in {x \in RootFetches(req) : x.res = "html"}}

ScrapeOutcomesBrowser == WeddingScraper_scrape(TRUE)
ScrapeOutcomesPlain == WeddingScraper_scrape(FALSE)

\* _should_use_browser(url): the host belongs to a BROWSER_REQUIRED_PLATFORMS
\* domain, for the hosts of the model
_should_use_browser(url) == Lower(url.hostname) = "theknot.com"

ScrapeOutcomes(url) ==
    IF _should_use_browser(url) THEN ScrapeOutcomesBrowser ELSE ScrapeOutcomesPlain

\* pages_to_scrape: nav_links without the links that are only noted
pages_to_scrape(links) ==
    LET Kept(l) == ~HasSkipKeyword(l.name) IN SelectSeq(links, Kept)

(***************************************************************************)
(* DiscoverSpec: the discovery of the sub-page links of one main page, as  *)
(* scrape() does it: navigation links, else links by keyword, else the     *)
(* known sections of the platform; then the separation of the links that   *)
(* are only noted.  A URL is its netloc, its path and its query; a path    *)
(* is the sequence of its fragments, with "/" a fragment of its own.       *)
(***************************************************************************)
MaxAnchors == 2

MaxFiller == 11

SubpageLimit == 10

\* str.lower(), fragment by fragment
lower(p) == [i \in DOMAIN p |-> IF p[i] = "Jane" THEN "jane" ELSE p[i]]

RECURSIVE rstrip(_)
\* str.rstrip("/")
rstrip(p) ==
    IF p # <<>> /\ p[Len(p)] = "/" THEN rstrip(SubSeq(p, 1, Len(p) - 1)) ELSE p

\* str.startswith
startswith(p, q) == Len(q) <= Len(p) /\ SubSeq(p, 1, Len(q)) = q

\* path.split('/')[-1]
LastSegment(p) ==
    LET S == {i \in DOMAIN p : p[i] = "/"}
        last == IF S = {} THEN 0 ELSE CHOOSE i \in S : \A j \in S : j <= i
    IN  SubSeq(p, last + 1, Len(p))

\* s[:n]
Take(s, n) == SubSeq(s, 1, IF Len(s) < n THEN Len(s) ELSE n)

PageUrl(netloc, path, query) == [netloc |-> netloc, path |-> path, query |-> query]

\* The main pages of the model: a path that holds a keyword, no path, a
\* platform's couple page, a path with a capital and a final slash
BaseUrls ==
    { PageUrl("site.com", <<"/", "wedding", "-", "details">>, ""),
      PageUrl("site.com", <<>>, ""),
      PageUrl("www.theknot.com", <<"/", "us", "/", "jane">>, ""),
      PageUrl("www.zola.com", <<"/", "Jane", "/">>, "") }

\* base_url with one more path segment
Under(base, seg) == PageUrl(base.netloc, rstrip(base.path) \o <<"/">> \o seg, "")

\* An <a href>: whether it lies in a navigation element, what its href
\* starts with, the URL the href resolves to, and its text
Anchor(nav, href, url, text) == [nav |-> nav, href |-> href, url |-> url, text |-> text]

LongText == <<"more", "than", "fifty", "characters">>

Anchors(base) ==
    { Anchor(TRUE, "/", base, <<"home">>),
      Anchor(FALSE, "/", base, <<>>),
      Anchor(FALSE, "/", PageUrl(base.netloc, base.path, "?lang=es"), <<"home">>),
      Anchor(TRUE, "/", Under(base, <<"travel">>), <<"travel">>),
      Anchor(TRUE, "/", Under(base, <<"photo", "s">>), <<"our", "photo", "s">>),
      Anchor(FALSE, "/", Under(base, <<"registry">>), <<"gift", "s">>),
      Anchor(TRUE, "/", Under(base, <<"story">>), LongText),
      Anchor(TRUE, "http", PageUrl("other.com", <<"/", "rsvp">>, ""), <<"rsvp">>),
      Anchor(FALSE, "/", PageUrl(base.netloc, <<"/", "rsvp">>, ""), <<"rsvp">>),
      Anchor(TRUE, "#", PageUrl(base.netloc, base.path, "#top"), <<"top">>) }

\* k further links to pages under the main page, all in the navigation or
\* all outside it
Filler(base, k, nav) ==
    [i \in 1..k |-> Anchor(nav, "/", Under(base, <<"page">> \o [j \in 1..i |-> "x"]),
                           <<"page">>)]

Pages(base) ==
    { prefix \o Filler(base, k, nav) :
        prefix \in UNION {[1..n -> Anchors(base)] : n \in 0..MaxAnchors},
        k \in 0..MaxFiller, nav \in BOOLEAN }

\* href.startswith('#') or href.startswith('javascript:') or
\* href.startswith('mailto:')
NotALink(a) == a.href \in {"#", "javascript:", "mailto:"}

NavLinkOf(url, name) == [url |-> url, name |-> name]

UrlsOf(links) == {links[i].url : i \in DOMAIN links}

RECURSIVE NavScan(_, _, _)
\* _find_nav_subpages: the loop over the links of the navigation elements
NavScan(anchors, base, nav_links) ==
    IF anchors = <<>> THEN nav_links
    ELSE LET a == Head(anchors)
             base_path == rstrip(base.path)
             href_path == rstrip(a.url.path)
             keep == /\ a.nav
                     /\ a.text # <<>> /\ a.text # LongText
                     /\ ~NotALink(a)
                     /\ a.url.netloc = base.netloc
                     /\ ~(href_path = base_path \/ href_path = <<>>)
                     /\ a.url \notin UrlsOf(nav_links)
                     /\ (startswith(href_path, base_path) \/ Contains(href_path, base_path))
         IN  NavScan(Tail(anchors), base,
                     IF keep THEN Append(nav_links, NavLinkOf(a.url, lower(a.text)))
                     ELSE nav_links)

RECURSIVE Unique(_, _)
\* _find_nav_subpages: deduplicate by URL, keeping the first occurrence
Unique(links, unique_links) ==
    IF links = <<>> THEN unique_links
    ELSE Unique(Tail(links),
                IF Head(links).url \in UrlsOf(unique_links) THEN unique_links
                ELSE Append(unique_links, Head(links)))

_find_nav_subpages_uncapped(anchors, base) == Unique(NavScan(anchors, base, <<>>), <<>>)

_find_nav_subpages(anchors, base) ==
    Take(Unique(NavScan(anchors, base, <<>>), <<>>), SubpageLimit)

subpage_keywords ==
    { <<"q", "-", "a">>, <<"qa">>, <<"faq">>, <<"travel">>,
      <<"things", "-", "to", "-", "do">>, <<"registry">>, <<"rsvp">>,
      <<"schedule">>, <<"story">>, <<"photo", "s">>, <<"party">>, <<"details">>,
      <<"accommodations">>, <<"hotels">>, <<"wedding", "-", "party">>,
      <<"our", "-", "story">>, <<"events">>, <<"ceremony">>, <<"reception">>,
      <<"welcome">> }

InSeq(x, s) == \E i \in DOMAIN s : s[i] = x

RECURSIVE KeywordScan_anyhost(_, _, _)
KeywordScan_anyhost(anchors, base, subpages) ==
    IF anchors = <<>> THEN subpages
    ELSE LET a == Head(anchors)
             full_url == a.url
             base_path == rstrip(base.path)
             href_path == lower(a.url.path)
             add == /\ ~NotALink(a)
                    /\ IF startswith(href_path, base_path) /\ href_path # base_path
                       THEN ~InSeq(full_url, subpages) /\ full_url # base
                       ELSE /\ \E keyword \in subpage_keywords : Contains(href_path, keyword)
                            /\ ~InSeq(full_url, subpages)
         IN  KeywordScan_anyhost(Tail(anchors), base,
                         IF add THEN Append(subpages, full_url) ELSE subpages)

RECURSIVE KeywordScan(_, _, _)
\* _find_subpages_by_keywords: the loop over every link of the page
KeywordScan(anchors, base, subpages) ==
    IF anchors = <<>> THEN subpages
    ELSE LET a == Head(anchors)
             full_url == a.url
             base_path == rstrip(base.path)
             href_path == lower(a.url.path)
             add == /\ ~NotALink(a)
                    /\ full_url.netloc = base.netloc
                    /\ IF startswith(href_path, base_path) /\ href_path # base_path
                       THEN ~InSeq(full_url, subpages) /\ full_url # base
                       ELSE /\ \E keyword \in subpage_keywords : Contains(href_path, keyword)
                            /\ ~InSeq(full_url, subpages)
         IN  KeywordScan(Tail(anchors), base,
                         IF add THEN Append(subpages, full_url) ELSE subpages)

_find_subpages_by_keywords(anchors, base) ==
    Take(KeywordScan(anchors, base, <<>>), SubpageLimit)

\* detect_platform, for the netlocs of the model
detect_platform(url) ==
    CASE url.netloc = "www.theknot.com" -> "the_knot"
      [] url.netloc = "www.zola.com"    -> "zola"
      [] OTHER                          -> "null"

_get_known_subpages(url, platform) ==
    LET sections ==
            CASE platform = "the_knot" ->
                   << <<"travel">>, <<"q", "-", "a">>, <<"schedule">>, <<"registry">>,
                      <<"rsvp">>, <<"party">>, <<"photo", "s">> >>
              [] platform = "zola" ->
                   << <<"travel">>, <<"faq">>, <<"schedule">>, <<"registry">> >>
              [] platform = "joy" ->
                   << <<"travel">>, <<"faq">>, <<"schedule">>, <<"registry">>,
                      <<"story">> >>
              [] platform = "weddingwire" ->
                   << <<"events">>, <<"travel">>, <<"accommodations">>,
                      <<"q", "-", "a">>, <<"schedule">>, <<"registry">> >>
              [] OTHER -> <<>>
    IN  [i \in DOMAIN sections |-> Under(url, sections[i])]

\* urlparse(u).path.split('/')[-1] or 'subpage'
NameFromUrl(u) ==
    IF LastSegment(u.path) = <<>> THEN <<"subpage">> ELSE LastSegment(u.path)

\* scrape(): nav_links by the three tiers, then pages_to_scrape and
\* pages_available
DiscoverLinks(anchors, url) ==
    LET platform == detect_platform(url)
        nav == _find_nav_subpages(anchors, url)
        keyword_urls == _find_subpages_by_keywords(anchors, url)
        by_keyword == [i \in DOMAIN keyword_urls |->
                          NavLinkOf(keyword_urls[i], NameFromUrl(keyword_urls[i]))]
        known_urls == _get_known_subpages(url, platform)
        known == [i \in DOMAIN known_urls |->
                     NavLinkOf(known_urls[i], NameFromUrl(known_urls[i]))]
        tier == CASE nav # <<>> -> "nav"
                  [] by_keyword # <<>> -> "keywords"
                  [] platform # "null" -> "known"
                  [] OTHER -> "none"
        nav_links == CASE tier = "nav" -> nav
                       [] tier = "keywords" -> by_keyword
                       [] tier = "known" -> known
                       [] OTHER -> <<>>
        Skipped(l) == HasSkipKeyword(l.name)
    IN  [tier |-> tier, nav_links |-> nav_links,
         pages_to_scrape |-> pages_to_scrape(nav_links),
         pages_available |-> SelectSeq(nav_links, Skipped)]

DiscoverInit ==
    /\ \E base \in BaseUrls : vin \in [base : {base}, anchors : Pages(base)]
    /\ vout = <<>>
    /\ SessionIdle
    /\ JobsIdle
    /\ SmsIdle

Discover ==
    /\ vout = <<>>
    /\ vout' = <<DiscoverLinks(vin.anchors, vin.base)>>
    /\ UNCHANGED <<vin, smsVars>>
    /\ UNCHANGED <<sessionVars, jobVars>>

DiscoverNext == Discover

DiscoverSpec == DiscoverInit /\ [][DiscoverNext]_vars

NoDuplicates(links) ==
    \A i, j \in DOMAIN links : links[i].url = links[j].url => i = j

\* C16: the links that discovery returns never hold the URL of the main
\* page and never hold one URL twice.
CexC16_NoRootNoDuplicates ==
    vout # <<>> =>
        /\ vin.base \notin UrlsOf(vout[1].nav_links)
        /\ NoDuplicates(vout[1].nav_links)

\* C27: every link that discovery returns, by the navigation tier, the
\* keyword tier or the platform's list of known pages, is on the host of the
\* main page's URL, so every sub-page handed to the fetcher is.
ThmC27_LinksStayOnRootHost ==
    vout # <<>> =>
        /\ \A u \in UrlsOf(vout[1].nav_links) : u.netloc = vin.base.netloc
        /\ \A i \in DOMAIN vout[1].pages_to_scrape :
              vout[1].pages_to_scrape[i].url.netloc = vin.base.netloc

WitC27_OtherHostLinkLeftOut ==
    /\ vout # <<>>
    /\ vout[1].tier = "keywords"
    /\ vout[1].pages_to_scrape # <<>>
    /\ \E i \in DOMAIN vin.anchors :
          /\ vin.anchors[i].url.netloc = "other.com"
          /\ vin.anchors[i].url \notin UrlsOf(vout[1].nav_links)

\* The number of links of the page that the navigation tier accepts
NavCandidates == Len(Unique(NavScan(vin.anchors, vin.base, <<>>), <<>>))

\* C17: discovery keeps at most 10 links, whichever tier produced them, and
\* so at most 10 sub-pages are in pages_to_scrape, the list the fetch loop
\* runs over.
ThmC17_AtMostTenLinks ==
    vout # <<>> =>
        /\ Len(vout[1].nav_links) <= SubpageLimit
        /\ Len(vout[1].pages_to_scrape) <= SubpageLimit
        /\ Len(vout[1].pages_to_scrape) + Len(vout[1].pages_available)
              = Len(vout[1].nav_links)

WitC17_ElevenNavLinksCut ==
    /\ vout # <<>>
    /\ vout[1].tier = "nav"
    /\ NavCandidates > SubpageLimit
    /\ Len(vout[1].pages_to_scrape) = SubpageLimit

(***************************************************************************)
(* AssembleSpec: the text of the sub-pages and the full_text of the        *)
(* bundle.  A text is its length in characters and the part of it that     *)
(* _clean_page_text removes; full_text is the sequence of its parts (the   *)
(* main page's text, one section per sub-page, the note), each with its    *)
(* length.                                                                 *)
(***************************************************************************)
MaxPages == 3

TRAVEL_CONTENT_LIMIT == 8000

PAGE_CONTENT_LIMIT == 5000

KNOT_MAIN_LIMIT == 6000

MAIN_LIMIT == 8000

KNOT_FULL_TEXT_LIMIT == 30000

FULL_TEXT_LIMIT == 20000

Text(len, junk) == [len |-> len, junk |-> junk]

Least(a, b) == IF a < b THEN a ELSE b

\* text[:n]
Slice(t, n) == Text(Least(t.len, n), Least(t.junk, n))

\* _clean_page_text: the lines it skips are gone
_clean_page_text(t) == Text(t.len - t.junk, 0)

\* The markup of a sub-page, by what _extract_main_content finds in it: the
\* combined hotel sections and the FAQ elements (of length 0 when there is
\* none) and the text of the main element or of the whole page
SubPage(name, hotel, qa, main) ==
    [name |-> name, hotel |-> hotel, qa |-> qa, main |-> main]

SubPages ==
    { SubPage(<<"travel">>, Text(9000, 500), Text(0, 0), Text(6000, 200)),
      SubPage(<<"accommodations">>, Text(12000, 0), Text(0, 0), Text(3000, 0)),
      SubPage(<<"hotels">>, Text(9000, 0), Text(0, 0), Text(3000, 0)),
      SubPage(<<"travel", " ", "info">>, Text(0, 0), Text(0, 0), Text(4000, 0)),
      SubPage(<<"schedule">>, Text(9000, 0), Text(7000, 0), Text(6000, 0)),
      SubPage(<<"q", "-", "a">>, Text(0, 0), Text(7000, 1000), Text(2000, 0)) }

\* any(kw in page_name.lower() for kw in ['travel', 'accommodations', 'hotels'])
IsTravelName(page_name) ==
    \E kw \in {<<"travel">>, <<"accommodations">>, <<"hotels">>} :
        Contains(page_name, kw)

\* any(kw in page_name.lower() for kw in ['q-a', 'qa', 'faq'])
IsQaName(page_name) ==
    \E kw \in {<<"q", "-", "a">>, <<"qa">>, <<"faq">>} : Contains(page_name, kw)

_extract_main_content(soup, page_name) ==
    CASE IsTravelName(page_name) /\ soup.hotel.len > 0 ->
           Slice(_clean_page_text(soup.hotel), TRAVEL_CONTENT_LIMIT)
      [] IsQaName(page_name) /\ soup.qa.len > 0 ->
           Slice(_clean_page_text(soup.qa), PAGE_CONTENT_LIMIT)
      [] OTHER ->
           Slice(_clean_page_text(soup.main), PAGE_CONTENT_LIMIT)

\* A dict as the sequence of its items in insertion order
Keys(d) == {d[i].name : i \in DOMAIN d}

Get(d, k) == d[CHOOSE i \in DOMAIN d : d[i].name = k].content

Set_appending(d, k, v) == Append(d, [name |-> k, content |-> v])

\* d[k] = v
Set(d, k, v) ==
    IF k \in Keys(d)
    THEN [i \in DOMAIN d |-> IF d[i].name = k THEN [name |-> k, content |-> v] ELSE d[i]]
    ELSE Append(d, [name |-> k, content |-> v])

RECURSIVE ScrapeSubpages(_, _)
\* scrape(): subpage_content[nav_name] = content, page after page
ScrapeSubpages(pages, subpage_content) ==
    IF pages = <<>> THEN subpage_content
    ELSE ScrapeSubpages(Tail(pages),
                        Set(subpage_content, Head(pages).name,
                            _extract_main_content(Head(pages), Head(pages).name)))

\* len(name), fragment by fragment
RECURSIVE Chars(_)
Chars(name) ==
    IF name = <<>> THEN 0
    ELSE (CASE Head(name) = "travel" -> 6
            [] Head(name) = "accommodations" -> 14
            [] Head(name) = "hotels" -> 6
            [] Head(name) = "schedule" -> 8
            [] Head(name) = "info" -> 4
            [] OTHER -> 1) + Chars(Tail(name))

MainPart(t) == [kind |-> "main", name |-> <<>>, len |-> t.len]

\* f"\n\n=== {page_name.upper()} PAGE ===\n{content}"
Section(page_name, content) ==
    [kind |-> "page", name |-> page_name, len |-> 16 + Chars(page_name) + content.len]

\* available_note: its three fixed lines and one line "- name: url" per page
Note(pages_available) ==
    IF pages_available = <<>> THEN <<>>
    ELSE <<[kind |-> "note", name |-> <<>>,
            len |-> 161 + Len(pages_available) * (5 + 40)]>>

RECURSIVE SliceParts(_, _)
\* combined_text[:n]
SliceParts(parts, n) ==
    IF parts = <<>> \/ n = 0 THEN <<>>
    ELSE IF Head(parts).len <= n
         THEN <<Head(parts)>> \o SliceParts(Tail(parts), n - Head(parts).len)
         ELSE <<[Head(parts) EXCEPT !.len = n]>>

priority_pages ==
    << <<"travel">>, <<"accommodations">>, <<"hotels">>, <<"q", "-", "a">>, <<"faq">> >>

KnotParts(main, subpage_content, pages_available) ==
    LET InPriority(item) == InSeq(item.name, priority_pages)
        Other(item) == ~InSeq(item.name, priority_pages)
        Present(page_name) == page_name \in Keys(subpage_content)
        first == SelectSeq(priority_pages, Present)
        other_pages == SelectSeq(subpage_content, Other)
    IN  <<MainPart(Slice(_clean_page_text(main), KNOT_MAIN_LIMIT))>>
        \o [i \in DOMAIN first |->
               Section(first[i], _clean_page_text(Get(subpage_content, first[i])))]
        \o [i \in DOMAIN other_pages |->
               Section(other_pages[i].name, _clean_page_text(other_pages[i].content))]
        \o Note(pages_available)

_scrape_the_knot_uncut(main, subpage_content, pages_available) ==
    KnotParts(main, subpage_content, pages_available)

_scrape_the_knot(main, subpage_content, pages_available) ==
    SliceParts(KnotParts(main, subpage_content, pages_available), KNOT_FULL_TEXT_LIMIT)

\* _scrape_zola, _scrape_joy and _scrape_generic build full_text alike
_scrape_generic(main, subpage_content, pages_available) ==
    SliceParts(<<MainPart(Slice(main, MAIN_LIMIT))>>
               \o [i \in DOMAIN subpage_content |->
                      Section(subpage_content[i].name, subpage_content[i].content)]
               \o Note(pages_available),
               FULL_TEXT_LIMIT)

_scrape_zola(main, subpage_content, pages_available) ==
    _scrape_generic(main, subpage_content, pages_available)

_scrape_joy(main, subpage_content, pages_available) ==
    _scrape_generic(main, subpage_content, pages_available)

_scrape_weddingwire(main, subpage_content, pages_available) ==
    _scrape_the_knot(main, subpage_content, pages_available)

Platforms == {"the_knot", "zola", "joy", "weddingwire", "null"}

\* scrape(): the choice of the assembler
FullText(platform, main, subpage_content, pages_available) ==
    CASE platform = "the_knot" -> _scrape_the_knot(main, subpage_content, pages_available)
      [] platform = "zola" -> _scrape_zola(main, subpage_content, pages_available)
      [] platform = "joy" -> _scrape_joy(main, subpage_content, pages_available)
      [] platform = "weddingwire" ->
           _scrape_weddingwire(main, subpage_content, pages_available)
      [] OTHER -> _scrape_generic(main, subpage_content, pages_available)

\* "pages_scraped": ["home"] + list(subpage_content.keys())
pages_scraped(subpage_content) ==
    <<<<"home">>>> \o [i \in DOMAIN subpage_content |-> subpage_content[i].name]

AssembleInit ==
    /\ vin \in [platform : Platforms,
                main : {Text(9000, 1000), Text(3000, 0)},
                pages : UNION {[1..n -> SubPages] : n \in 0..MaxPages},
                pages_available : {<<>>, <<[name |-> <<"our", "photo", "s">>, url |-> 1]>>}]
    /\ vout = <<>>
    /\ SessionIdle
    /\ JobsIdle
    /\ SmsIdle

Assemble ==
    /\ vout = <<>>
    /\ LET subpage_content == ScrapeSubpages(vin.pages, <<>>)
       IN  vout' = <<[subpage_content |-> subpage_content,
                      pages_scraped |-> pages_scraped(subpage_content),
                      full_text |-> FullText(vin.platform, vin.main, subpage_content,
                                             vin.pages_available)]>>
    /\ UNCHANGED <<vin, smsVars>>
    /\ UNCHANGED <<sessionVars, jobVars>>

AssembleNext == Assemble

AssembleSpec == AssembleInit /\ [][AssembleNext]_vars

RECURSIVE TotalLen(_)
TotalLen(parts) == IF parts = <<>> THEN 0 ELSE Head(parts).len + TotalLen(Tail(parts))

\* C19: the text kept for a sub-page has at most 8,000 characters when the
\* page is a travel or accommodation page and at most 5,000 otherwise;
\* full_text has at most 30,000 characters from the assembler of The Knot
\* and WeddingWire and at most 20,000 from the others.
ThmC19_ContentAndFullTextCapped ==
    vout # <<>> =>
        /\ \A i \in DOMAIN vout[1].subpage_content :
              LET item == vout[1].subpage_content[i]
              IN  item.content.len <= (IF IsTravelName(item.name) THEN 8000 ELSE 5000)
        /\ TotalLen(vout[1].full_text)
              <= (IF vin.platform \in {"the_knot", "weddingwire"} THEN 30000 ELSE 20000)

WitC19_BothCapsReached ==
    /\ vout # <<>>
    /\ vin.platform = "weddingwire"
    /\ Len(vin.pages) = 3
    /\ \A i \in DOMAIN vout[1].subpage_content :
          vout[1].subpage_content[i].content.len = 8000
    /\ TotalLen(vout[1].full_text) = 30000
    /\ TotalLen(KnotParts(vin.main, vout[1].subpage_content, vin.pages_available)) > 30000

\* The sub-pages the assemblers are to put first
IsPriorityPage(name) == InSeq(name, priority_pages)

\* C20: in full_text the sections of the travel, accommodation and Q&A
\* sub-pages come before the sections of all other sub-pages, and the note
\* about the pages to redirect guests to comes after every sub-page section,
\* whichever assembler built it.
CexC20_PriorityPagesFirst ==
    vout # <<>> =>
        LET parts == vout[1].full_text
        IN  \A i, j \in DOMAIN parts :
                /\ (parts[i].kind = "page" /\ parts[j].kind = "page"
                      /\ IsPriorityPage(parts[i].name) /\ ~IsPriorityPage(parts[j].name))
                      => i < j
                /\ (parts[i].kind = "page" /\ parts[j].kind = "note") => i < j

\* The names of the sub-pages that were fetched and extracted, which are
\* the pages of the input
FetchedNames == {vin.pages[i].name : i \in DOMAIN vin.pages}

\* C28 as stated: pages_scraped has one sub-page entry for every sub-page
\* that was fetched, also when two of them have the same name.
CexC28_OneEntryPerFetchedPage ==
    vout # <<>> => Len(vout[1].pages_scraped) - 1 = Len(vin.pages)

\* C28, amended: pages_scraped is "home" followed by one entry for every
\* name among the sub-pages that were fetched, each name once, and the text
\* kept under a name is that of the last fetched page of the name; the
\* number of sub-page entries is the number of fetched pages only when
\* their names differ.
ThmC28_OneEntryPerPageName ==
    vout # <<>> =>
        LET entries == vout[1].pages_scraped
        IN  /\ entries[1] = <<"home">>
            /\ Len(entries) - 1 = Cardinality(FetchedNames)
            /\ {entries[i] : i \in 2..Len(entries)} = FetchedNames
            /\ \A n \in FetchedNames :
                  LET last == CHOOSE i \in DOMAIN vin.pages :
                                  /\ vin.pages[i].name = n
                                  /\ \A j \in DOMAIN vin.pages :
                                        vin.pages[j].name = n => j <= i
                  IN  Get(vout[1].subpage_content, n)
                        = _extract_main_content(vin.pages[last], n)

WitC28_TwoPagesOneEntry ==
    /\ vout # <<>>
    /\ Len(vin.pages) = 3
    /\ vin.pages[1].name = <<"travel">>
    /\ vin.pages[2].name = <<"schedule">>
    /\ vin.pages[3].name = <<"travel">>
    /\ vout[1].pages_scraped = << <<"home">>, <<"travel">>, <<"schedule">> >>

(***************************************************************************)
(* HotelSpec: the branch of _extract_main_content for a travel page, on    *)
(* the candidate elements of one page in document order.  An element is    *)
(* the length of its text, the part of it that _clean_page_text removes,   *)
(* what the scoring finds in it and the fingerprint of its first 100       *)
(* characters.                                                             *)
(***************************************************************************)
MaxSections == 3

SECTION_MIN_LEN == 100

SECTION_MAX_LEN == 10000

SCORE_THRESHOLD == 8

HotelElement(len, junk, kw, phone, address, dates, cls, registry, fp) ==
    [len |-> len, junk |-> junk, kw |-> kw, phone |-> phone, address |-> address,
     dates |-> dates, cls |-> cls, registry |-> registry, fp |-> fp]

HotelElements ==
    { HotelElement(9000, 0, 2, TRUE, FALSE, TRUE, FALSE, FALSE, 1),
      HotelElement(9600, 0, 4, TRUE, FALSE, TRUE, FALSE, FALSE, 1),
      HotelElement(12000, 0, 5, TRUE, FALSE, TRUE, FALSE, FALSE, 1),
      HotelElement(7800, 0, 3, TRUE, TRUE, FALSE, FALSE, FALSE, 2),
      HotelElement(3000, 200, 0, FALSE, TRUE, FALSE, TRUE, FALSE, 3),
      HotelElement(500, 0, 3, TRUE, FALSE, FALSE, FALSE, FALSE, 4),
      HotelElement(500, 0, 2, TRUE, FALSE, FALSE, FALSE, FALSE, 5),
      HotelElement(600, 0, 0, FALSE, FALSE, TRUE, FALSE, TRUE, 6),
      HotelElement(100, 0, 0, FALSE, FALSE, TRUE, FALSE, FALSE, 7) }

TravelPages == UNION {[1..n -> HotelElements] : n \in 0..MaxSections}

\* The score of an element: one per travel keyword, 5 for a phone number, 5
\* for a street address, 10 for check-in with check-out, 3 for a travel
\* class or id
Score(section) ==
    section.kw + (IF section.phone THEN 5 ELSE 0) + (IF section.address THEN 5 ELSE 0)
      + (IF section.dates THEN 10 ELSE 0) + (IF section.cls THEN 3 ELSE 0)

MaxScore == 17 + 5 + 5 + 10 + 3

\* The loop over find_all([...]): the elements that are appended to
\* hotel_sections, each with its place in the page
RECURSIVE CollectHotelSections(_, _, _)
CollectHotelSections(page, i, seen_texts) ==
    IF i > Len(page) THEN <<>>
    ELSE LET section == page[i]
             taken == /\ ~section.registry
                      /\ ~(section.len < SECTION_MIN_LEN \/ section.len > SECTION_MAX_LEN)
                      /\ Score(section) >= SCORE_THRESHOLD
                      /\ section.len > SECTION_MIN_LEN
                      /\ section.fp \notin seen_texts
         IN  IF taken
             THEN <<[at |-> i, score |-> Score(section),
                     text |-> Text(section.len, section.junk)]>>
                  \o CollectHotelSections(page, i + 1, seen_texts \cup {section.fp})
             ELSE CollectHotelSections(page, i + 1, seen_texts)

\* hotel_sections.sort(key=lambda x: x[0], reverse=True), a stable sort
RECURSIVE SortByScore(_, _)
SortByScore(hotel_sections, score) ==
    IF score < 0 THEN <<>>
    ELSE SelectSeq(hotel_sections, LAMBDA s : s.score = score)
         \o SortByScore(hotel_sections, score - 1)

\* self._clean_page_text("\n\n".join(...))[:room]: the cleaned sections
\* follow one another with one newline between them
RECURSIVE CutSections(_, _)
CutSections(hotel_sections, room) ==
    IF hotel_sections = <<>> \/ room <= 0 THEN <<>>
    ELSE LET cleaned == _clean_page_text(Head(hotel_sections).text)
         IN  <<[at |-> Head(hotel_sections).at, len |-> Least(cleaned.len, room)]>>
             \o CutSections(Tail(hotel_sections), room - cleaned.len - 1)

_extract_hotel_content_best_only(page) ==
    CutSections(Take(SortByScore(CollectHotelSections(page, 1, {}), MaxScore), 1),
                TRAVEL_CONTENT_LIMIT)

\* The text returned for a travel page that has hotel sections, as the
\* sequence of the sections it holds text of
_extract_hotel_content(page) ==
    CutSections(SortByScore(CollectHotelSections(page, 1, {}), MaxScore),
                TRAVEL_CONTENT_LIMIT)

HotelInit ==
    /\ vin \in [page : TravelPages]
    /\ vout = <<>>
    /\ SessionIdle
    /\ JobsIdle
    /\ SmsIdle

ExtractHotelContent ==
    /\ vout = <<>>
    /\ vout' = <<_extract_hotel_content(vin.page)>>
    /\ UNCHANGED <<vin, smsVars>>
    /\ UNCHANGED <<sessionVars, jobVars>>

HotelNext == ExtractHotelContent

HotelSpec == HotelInit /\ [][HotelNext]_vars

\* The elements of the page that are scored, at or above the threshold
Scoring ==
    {i \in DOMAIN vin.page :
        /\ ~vin.page[i].registry
        /\ vin.page[i].len > SECTION_MIN_LEN /\ vin.page[i].len <= SECTION_MAX_LEN
        /\ Score(vin.page[i]) >= SCORE_THRESHOLD}

\* ... and do not begin as an earlier one of them does
Qualifying ==
    {i \in Scoring : \A j \in Scoring : j < i => vin.page[j].fp # vin.page[i].fp}

HasTextOf(i) == \E k \in DOMAIN vout[1] : vout[1][k].at = i /\ vout[1][k].len > 0

CleanedLen(i) == vin.page[i].len - vin.page[i].junk

\* The sections that the sort puts before section i
Before(i) ==
    {j \in Qualifying \ {i} :
        \/ Score(vin.page[j]) > Score(vin.page[i])
        \/ Score(vin.page[j]) = Score(vin.page[i]) /\ j < i}

RECURSIVE SumCleaned(_)
SumCleaned(S) ==
    IF S = {} THEN 0
    ELSE LET i == CHOOSE i \in S : TRUE IN CleanedLen(i) + 1 + SumCleaned(S \ {i})

\* C24 as stated: the text returned for a travel page with two or more
\* distinct sections scored at or above the threshold holds text of every
\* one of them.
CexC24_EveryHotelSectionKept ==
    (vout # <<>> /\ Cardinality(Qualifying) >= 2) =>
        \A i \in Qualifying : HasTextOf(i)

\* C24, amended: the text returned for such a page holds the sections in
\* the order of their scores and is cut at 8000 characters; it holds text
\* of exactly the sections that start before the cut, so of every section
\* when the cleaned sections together fit.
ThmC24_HotelSectionsKeptUpToTheCut ==
    (vout # <<>> /\ Cardinality(Qualifying) >= 2) =>
        /\ \A i \in Qualifying :
              HasTextOf(i) <=> SumCleaned(Before(i)) < TRAVEL_CONTENT_LIMIT
        /\ \A i \in DOMAIN vin.page : HasTextOf(i) => i \in Qualifying
        /\ \A k \in 1..(Len(vout[1]) - 1) :
              Score(vin.page[vout[1][k].at]) >= Score(vin.page[vout[1][k + 1].at])

WitC24_TwoSectionsBothKept ==
    /\ vout # <<>>
    /\ Cardinality(Qualifying) >= 2
    /\ \A i \in Qualifying : HasTextOf(i)
    /\ \E i \in Qualifying : \E k \in DOMAIN vout[1] :
          vout[1][k].at = i /\ vout[1][k].len < CleanedLen(i)

(***************************************************************************)
(* ParseDateSpec: WeddingDataMapper._parse_date on one text.  A text is    *)
(* the sequence of its tokens: numbers (with their count of digits),       *)
(* words and the separators "/", "," and " ".                              *)
(***************************************************************************)
Num(n, d) == [k |-> "num", n |-> n, d |-> d, w |-> ""]

Word(w) == [k |-> "word", n |-> 0, d |-> 0, w |-> w]

Sep(w) == [k |-> "sep", n |-> 0, d |-> 0, w |-> w]

\* The number as it is usually written, and written with a leading zero
Plain(n) == Num(n, IF n < 10 THEN 1 ELSE IF n < 100 THEN 2 ELSE IF n < 1000 THEN 3 ELSE 4)

DayNumbers == {Plain(n) : n \in {0, 1, 2, 6, 12, 13, 15, 29, 30, 31, 45}} \cup {Num(6, 2)}

YearNumbers == {Plain(2024), Plain(2025), Plain(999)}

MonthWords == {"June", "jun", "February", "Juno", "15"}

DateTexts ==
    LET body ==
            {<<a, Sep("/"), b, Sep("/"), y>> : a \in DayNumbers, b \in DayNumbers,
                                               y \in YearNumbers}
            \cup {<<Word(w), Sep(" "), d>> \o c \o <<Sep(" "), y>> :
                     w \in MonthWords, d \in DayNumbers, y \in YearNumbers,
                     c \in {<<>>, <<Sep(",")>>}}
            \cup {<<d, Sep(" "), Word(w), Sep(" "), y>> :
                     d \in DayNumbers, w \in MonthWords, y \in YearNumbers}
            \cup {<<>>, <<Word("soon")>>}
    IN  body \cup {<<Word("on"), Sep(" ")>> \o t : t \in body}

NoMatch == [ok |-> FALSE, g |-> <<>>]

\* (\d{1,2}) where the search may start inside a number: its last two digits
LastTwo(t) == t.n % 100

\* (\d{4}): the first four digits of a number of at least four
IsYear(t) == t.k = "num" /\ t.d >= 4

FirstFour(t) == IF t.d = 4 THEN t.n ELSE t.n \div 10

At(text, i) == IF i \in DOMAIN text THEN text[i] ELSE Sep("")

RECURSIVE AfterSpaces(_, _)
\* \s*: the position after the spaces that start at i
AfterSpaces(text, i) ==
    IF At(text, i) = Sep(" ") THEN AfterSpaces(text, i + 1) ELSE i

\* r"(\d{1,2})/(\d{1,2})/(\d{4})" at position i
MatchSlash(text, i) ==
    IF /\ At(text, i).k = "num"
       /\ At(text, i + 1) = Sep("/")
       /\ At(text, i + 2).k = "num" /\ At(text, i + 2).d <= 2
       /\ At(text, i + 3) = Sep("/")
       /\ IsYear(At(text, i + 4))
    THEN [ok |-> TRUE,
          g |-> <<Plain(LastTwo(At(text, i))), At(text, i + 2),
                  Plain(FirstFour(At(text, i + 4)))>>]
    ELSE NoMatch

\* r"(\w+)\s+(\d{1,2}),?\s+(\d{4})" at position i
MatchMonthFirst(text, i) ==
    LET j == AfterSpaces(text, i + 1)
        c == IF At(text, j + 1) = Sep(",") THEN j + 2 ELSE j + 1
        y == AfterSpaces(text, c)
    IN  IF /\ At(text, i).k \in {"word", "num"}
           /\ j > i + 1
           /\ At(text, j).k = "num" /\ At(text, j).d <= 2
           /\ y > c
           /\ IsYear(At(text, y))
        THEN [ok |-> TRUE, g |-> <<At(text, i), At(text, j), Plain(FirstFour(At(text, y)))>>]
        ELSE NoMatch

\* r"(\d{1,2})\s+(\w+)\s+(\d{4})" at position i
MatchDayFirst(text, i) ==
    LET j == AfterSpaces(text, i + 1)
        y == AfterSpaces(text, j + 1)
    IN  IF /\ At(text, i).k = "num"
           /\ j > i + 1
           /\ At(text, j).k \in {"word", "num"}
           /\ y > j + 1
           /\ IsYear(At(text, y))
        THEN [ok |-> TRUE,
              g |-> <<Plain(LastTwo(At(text, i))), At(text, j), Plain(FirstFour(At(text, y)))>>]
        ELSE NoMatch

\* re.search: the leftmost match
Search(Match(_, _), text) ==
    LET S == {i \in DOMAIN text : Match(text, i).ok}
    IN  IF S = {} THEN NoMatch ELSE Match(text, CHOOSE i \in S : \A j \in S : i <= j)

\* _month_to_number: months.get(month_name.lower().strip()), 0 for None
_month_to_number(month_name) ==
    LET name == IF month_name.k = "num" THEN "" ELSE month_name.w
    IN  CASE name \in {"June", "june", "jun", "Jun"} -> 6
          [] name \in {"February", "february", "feb", "Feb"} -> 2
          [] OTHER -> 0

\* f"{year}-{month:02d}-{day:02d}"
IsoDate(year, month, day) ==
    LET Pad2(n) == IF n < 10 THEN "0" \o ToString(n) ELSE ToString(n)
    IN  [none |-> FALSE,
         iso |-> ToString(year) \o "-" \o Pad2(month) \o "-" \o Pad2(day),
         year |-> year, month |-> month, day |-> day]

NoDate == [none |-> TRUE, iso |-> "", year |-> 0, month |-> 0, day |-> 0]

\* The number of days of a month of the calendar
DaysIn(month, year) ==
    CASE month \in {4, 6, 9, 11} -> 30
      [] month = 2 -> IF year % 4 = 0 /\ (year % 100 # 0 \/ year % 400 = 0) THEN 29 ELSE 28
      [] OTHER -> 31

_parse_date(text) ==
    LET slash == Search(MatchSlash, text)
        monthFirst == Search(MatchMonthFirst, text)
        dayFirst == Search(MatchDayFirst, text)
    IN  CASE text = <<>> -> NoDate
          [] slash.ok -> IsoDate(slash.g[3].n, slash.g[1].n, slash.g[2].n)
          [] monthFirst.ok /\ _month_to_number(monthFirst.g[1]) # 0 ->
               IsoDate(monthFirst.g[3].n, _month_to_number(monthFirst.g[1]),
                       monthFirst.g[2].n)
          [] dayFirst.ok /\ _month_to_number(dayFirst.g[2]) # 0 ->
               IsoDate(dayFirst.g[3].n, _month_to_number(dayFirst.g[2]), dayFirst.g[1].n)
          [] OTHER -> NoDate

ParseDateInit ==
    /\ vin \in [text : DateTexts]
    /\ vout = <<>>
    /\ SessionIdle
    /\ JobsIdle
    /\ SmsIdle

ParseDate ==
    /\ vout = <<>>
    /\ vout' = <<_parse_date(vin.text)>>
    /\ UNCHANGED <<vin, smsVars>>
    /\ UNCHANGED <<sessionVars, jobVars>>

ParseDateNext == ParseDate

ParseDateSpec == ParseDateInit /\ [][ParseDateNext]_vars

IsCalendarDate(r) ==
    /\ r.month \in 1..12
    /\ r.day \in 1..DaysIn(r.month, r.year)

\* C23: _parse_date returns a date only for a real calendar date: "June 15,
\* 2025" gives "2025-06-15", and a text whose month or day is out of range,
\* such as "13/45/2025", gives None.
CexC23_OnlyCalendarDates ==
    vout # <<>> =>
        /\ ~vout[1].none => IsCalendarDate(vout[1])
        /\ vin.text = <<Word("June"), Sep(" "), Plain(15), Sep(","), Sep(" "), Plain(2025)>>
              => vout[1].iso = "2025-06-15"
        /\ vin.text = <<Plain(13), Sep("/"), Plain(45), Sep("/"), Plain(2025)>>
              => vout[1].none

(***************************************************************************)
(* MapperSpec: WeddingDataMapper.extract_structured_data on one scraped    *)
(* bundle and one answer of the extraction service, followed by the        *)
(* preview that the callers build from the result.  A value is None, a     *)
(* string or a list; strings and lists are sequences of tokens.            *)
(***************************************************************************)
Val(t, v) == [t |-> t, v |-> v]

None == Val("none", <<>>)

Str(v) == Val("str", v)

List(v) == Val("list", v)

\* a key that the dict does not hold
Absent == Val("absent", <<>>)

\* bool(value)
NotEmpty(value) == value.t \notin {"none", "absent"} /\ value.v # <<>>

MapperKeys ==
    {"partner1_name", "partner2_name", "wedding_date", "dress_code", "events", "accommodations"}

NameKeys == {"partner1_name", "partner2_name"}

ListKeys == {"events", "accommodations"}

CoupleTexts ==
    {<<>>, <<"Jane">>, <<"Jane", "&", "John">>, <<"Jane", "and", "John", "Wedding", "Website">>}

\* _parse_couple_names: the suffix from " Wedding" on is removed, the text
\* is split at the first separator of the list that it holds
_parse_couple_names(text) ==
    LET W == {i \in DOMAIN text : text[i] \in {"Wedding", "wedding"}}
        cut == IF W = {} THEN text
               ELSE SubSeq(text, 1, (CHOOSE i \in W : \A j \in W : i <= j) - 1)
        separators == <<"&", "and", "AND", "+">>
        Held(sep) == \E i \in DOMAIN cut : cut[i] \in {sep, lower(<<sep>>)[1]}
        found == SelectSeq(separators, Held)
        At1 == {i \in DOMAIN cut : cut[i] = found[1]}
        first == CHOOSE i \in At1 : \A j \in At1 : i <= j
        Later == {i \in At1 : i > first}
        second == IF Later = {} THEN Len(cut) + 1
                  ELSE CHOOSE i \in Later : \A j \in Later : i <= j
    IN  IF found = <<>> THEN <<cut, <<>> >>
        ELSE <<SubSeq(cut, 1, first - 1), SubSeq(cut, first + 1, second - 1)>>

RawDatas ==
    [couple_names : CoupleTexts,
     date_text : {<<>>, <<Plain(13), Sep("/"), Plain(45), Sep("/"), Plain(2025)>>,
                  <<Word("June"), Sep(" "), Plain(15), Sep(","), Sep(" "), Plain(2025)>>},
     full_text : BOOLEAN]

_extract_direct_fields(raw_data) ==
    LET names == _parse_couple_names(raw_data.couple_names)
        date == _parse_date(raw_data.date_text)
    IN  [partner1_name |-> IF raw_data.couple_names # <<>> THEN Str(names[1]) ELSE Str(<<>>),
         partner2_name |-> IF raw_data.couple_names # <<>> THEN Str(names[2]) ELSE Str(<<>>),
         wedding_date |-> IF raw_data.date_text # <<>> /\ ~date.none
                          THEN Str(<<date.iso>>) ELSE None,
         dress_code |-> None,
         events |-> List(<<>>),
         accommodations |-> List(<<>>)]

\* The JSON objects the service can answer with; an event that is not a
\* JSON object is the item "text"
LlmObjects ==
    [partner1_name : {Absent, None, Str(<<>>), Str(<<"Janet">>)},
     partner2_name : {Absent, Str(<<"Johnny">>)},
     wedding_date : {Absent, None, Str(<<>>), Str(<<"2026-01-01">>)},
     dress_code : {None, Str(<<"formal">>)},
     events : {Absent, None, List(<<>>), List(<<"rehearsal">>), List(<<"text">>),
               Str(<<"many">>)},
     accommodations : {Absent, None, List(<<"hotel">>)}]

EmptyObject == [k \in MapperKeys |-> Absent]

\* What the call of the service does: it raises, times out, answers without
\* content, or answers with a text that holds no braces, braces that are
\* not JSON, or a JSON object
ServiceOutcomes ==
    [kind : {"raise", "timeout", "no_content", "no_json", "bad_json"}, obj : {EmptyObject}]
    \cup [kind : {"object"}, obj : LlmObjects]

ServiceFailed(svc) == svc.kind # "object"

_extract_with_claude_uncaught(svc) ==
    CASE svc.kind = "object" ->
           [exc |-> svc.obj.accommodations = None, obj |-> svc.obj]
      [] svc.kind = "no_json" -> [exc |-> FALSE, obj |-> EmptyObject]
      [] OTHER -> [exc |-> TRUE, obj |-> EmptyObject]

\* _extract_with_claude: every exception of the call, of content[0], of
\* json.loads and of len(accommodations) on a null is caught and gives {}
_extract_with_claude(svc) ==
    CASE svc.kind = "object" ->
           [exc |-> FALSE,
            obj |-> IF svc.obj.accommodations = None THEN EmptyObject ELSE svc.obj]
      [] OTHER -> [exc |-> FALSE, obj |-> EmptyObject]

_merge_data_llm_first(direct, llm) ==
    [key \in MapperKeys |-> IF NotEmpty(llm[key]) THEN llm[key] ELSE direct[key]]

_merge_data(direct, llm) ==
    [key \in MapperKeys |->
        LET value == llm[key]
        IN  CASE value \in {Absent, None} -> direct[key]
              [] key \in NameKeys ->
                   IF ~NotEmpty(direct[key]) /\ NotEmpty(value) THEN value ELSE direct[key]
              [] key \in ListKeys ->
                   IF value.t = "list" /\ NotEmpty(value) THEN value ELSE direct[key]
              [] OTHER ->
                   IF ~NotEmpty(direct[key]) THEN value ELSE direct[key]]

extract_structured_data(raw_data, svc) ==
    LET direct_extracted == _extract_direct_fields(raw_data)
        llm_extracted == _extract_with_claude(svc)
    IN  IF raw_data.full_text
        THEN [exc |-> llm_extracted.exc,
              data |-> _merge_data(direct_extracted, llm_extracted.obj)]
        ELSE [exc |-> FALSE, data |-> direct_extracted]

\* The callers' preview: e.get(...) for e in raw_events raises on an event
\* that is not a dict
PreviewRaises(structured_data) ==
    \E i \in DOMAIN structured_data.events.v : structured_data.events.v[i] = "text"

MapperInit ==
    /\ vin \in [raw_data : RawDatas, svc : ServiceOutcomes]
    /\ vout = <<>>
    /\ SessionIdle
    /\ JobsIdle
    /\ SmsIdle

\* mapper.extract_structured_data(raw_data) and the preview, in the try of
\* a caller
MapStructured ==
    /\ vout = <<>>
    /\ LET r == extract_structured_data(vin.raw_data, vin.svc)
       IN  vout' = <<[exc |-> r.exc, data |-> r.data,
                      succeeded |-> ~r.exc /\ ~PreviewRaises(r.data)]>>
    /\ UNCHANGED <<vin, smsVars>>
    /\ UNCHANGED <<sessionVars, jobVars>>

MapperNext == MapStructured

MapperSpec == MapperInit /\ [][MapperNext]_vars

Pass1 == _extract_direct_fields(vin.raw_data)

Pass2 == _extract_with_claude(vin.svc).obj

Merged == vout # <<>> /\ vin.raw_data.full_text /\ vin.svc.kind = "object"

\* C21: in the merged record every scalar field holds the pass-1 value when
\* that value is non-empty, and holds something else only when the pass-1
\* value is empty, and then the pass-2 value; a list field holds the pass-2
\* list whenever pass-2 supplies a non-empty list.
ThmC21_MergePrefersPass1 ==
    Merged =>
        /\ \A key \in MapperKeys \ ListKeys :
              /\ NotEmpty(Pass1[key]) => vout[1].data[key] = Pass1[key]
              /\ vout[1].data[key] # Pass1[key]
                    => (~NotEmpty(Pass1[key]) /\ vout[1].data[key] = Pass2[key])
        /\ \A key \in ListKeys :
              (Pass2[key].t = "list" /\ Pass2[key].v # <<>>)
                  => vout[1].data[key] = Pass2[key]

WitC21_NameKeptListTaken ==
    /\ Merged
    /\ Pass1.partner1_name = Str(<<"Jane">>)
    /\ Pass2.partner1_name = Str(<<"Janet">>)
    /\ vout[1].data.partner1_name = Str(<<"Jane">>)
    /\ vout[1].data.partner2_name = Str(<<"Johnny">>)
    /\ Pass1.wedding_date = None
    /\ vout[1].data.wedding_date = Str(<<"2026-01-01">>)
    /\ vout[1].data.events = List(<<"rehearsal">>)

\* C22: when the call of the extraction service raises, times out or
\* answers without a parseable JSON object, extract_structured_data raises
\* nothing and returns the pass-1 record, and the caller's mapping step
\* succeeds.
ThmC22_ServiceFailureDegrades ==
    (vout # <<>> /\ ServiceFailed(vin.svc)) =>
        /\ ~vout[1].exc
        /\ vout[1].data = Pass1
        /\ vout[1].succeeded

WitC22_BadJsonGivesPass1 ==
    /\ vout # <<>>
    /\ vin.raw_data.full_text
    /\ vin.svc.kind = "bad_json"
    /\ vout[1].data.partner1_name = Str(<<"Jane">>)
    /\ vout[1].data.partner2_name = Str(<<"John">>)
    /\ vout[1].data.wedding_date = Str(<<"2025-06-15">>)
    /\ vout[1].succeeded

(***************************************************************************)
(* FetchSpec: one _fetch_page call, for every session state a scrape can   *)
(* be in and every answer of the network and the browser.                  *)
(***************************************************************************)
FetchSessions ==
    SubpageReach({NewSession}, FALSE, MaxSubpages)
        \cup SubpageReach({NewSession}, TRUE, MaxSubpages)

FetchInit ==
    /\ vin \in [s : FetchSessions, req : BOOLEAN, in : FetchInputs]
    /\ vout = <<>>
    /\ SessionIdle
    /\ JobsIdle
    /\ SmsIdle

FetchPage ==
    /\ vout = <<>>
    /\ vout' = <<_fetch_page(vin.s, vin.req, vin.in)>>
    /\ UNCHANGED <<vin, smsVars>>
    /\ UNCHANGED <<sessionVars, jobVars>>

FetchNext == FetchPage

FetchSpec == FetchInit /\ [][FetchNext]_vars

\* A body shorter than 500 characters or holding a challenge-page marker
Challenge(html) == html.len < BLOCKED_MIN_LEN \/ html.marker

\* The call got a lightweight response, and it was such a body
LightweightBlocked ==
    /\ vout # <<>>
    /\ vout[1].httpx
    /\ ~vin.in.hx.exc
    /\ vin.in.hx.html # NoHtml
    /\ Challenge(vin.in.hx.html)

\* C11: when the lightweight response is shorter than 500 characters or
\* holds a challenge marker, _fetch_page goes on to the browser tier; a page
\* it returns is never such a body; and when the browser returns a blocked
\* page or None the result is None after that one browser attempt.
ThmC11_BlockedGoesToBrowser ==
    LightweightBlocked =>
        LET r == vout[1]
            b == _fetch_with_browser(vin.s, vin.in.so, vin.in.po)
        IN  /\ r.browser
            /\ r.res = "html" => (r.html # NoHtml /\ ~Challenge(r.html))
            /\ (~b.exc /\ (b.html = NoHtml \/ Challenge(b.html))) =>
                  (r.res = "none" /\ r.html = NoHtml /\ r.s = b.s)

WitC11_ChallengeThenBlockedBrowser ==
    /\ LightweightBlocked
    /\ vin.in.hx.html = [len |-> 200, marker |-> TRUE]
    /\ vin.in.so = "ok"
    /\ vin.in.po.html = [len |-> 6000, marker |-> TRUE]
    /\ vout[1].res = "none"

\* C12: _fetch_page does not raise: when neither the lightweight request
\* nor the closing of the browser page raises, then whatever the start of
\* the browser and the navigation do, it returns HTML or None.
CexC12_FetchPageReturns ==
    (vout # <<>> /\ ~vin.in.hx.exc /\ ~vin.in.po.close_raises)
        => vout[1].res # "raise"

(***************************************************************************)
(* Spec: the three entry points, the job executor and the status poll.     *)
(***************************************************************************)
PublicDns == [status |-> "ok", addrs |-> {"93.184.216.34"}]

\* The URLs requests are made with, and what DNS answers for them
CallInputs ==
    {[url |-> [scheme |-> "https", hostname |-> "example.org"], dns |-> PublicDns],
     [url |-> [scheme |-> "http", hostname |-> "10.0.0.5"], dns |-> PublicDns],
     [url |-> [scheme |-> "http", hostname |-> "169.254.169.254"], dns |-> PublicDns],
     [url |-> [scheme |-> "ftp", hostname |-> "example.org"], dns |-> PublicDns],
     [url |-> [scheme |-> "https", hostname |-> "intranet.corp"],
      dns |-> [status |-> "gaierror", addrs |-> {}]]}

Response(status, detail) == [status |-> status, detail |-> detail]

SetCall(c, rec) == calls' = [calls EXCEPT ![c] = rec]

\* ---- scrape_wedding_website ------------------------------------------------

\* validation, then WeddingScraper()
ScrapeBegin(c) ==
    /\ calls[c].pc = "idle"
    /\ \E in \in CallInputs, ctor_ok \in BOOLEAN :
          LET v == validate_url_for_ssrf(in.url, in.dns)
              c0 == [calls[c] EXCEPT !.kind = "scrape", !.in = in, !.verdict = v,
                                     !.nvalid = @ + 1]
          IN  SetCall(c,
                IF ~v.ok
                THEN [c0 EXCEPT !.pc = "done", !.response = Response(400, v.reason)]
                ELSE IF ctor_ok
                THEN [c0 EXCEPT !.pc = "scrape", !.sess = NewSession]
                ELSE [c0 EXCEPT !.pc = "done",
                                !.response = Response(500, "Internal Server Error")])
    /\ lastPoll' = NoPoll
    /\ UNCHANGED <<jobs, tasks, validateVars, smsVars, sessionVars>>

\* raw_data = await scraper.scrape(url), which ends in outcome o, and the
\* error payload check
ScrapeReturn(c, o) ==
    /\ calls[c].kind = "scrape"
    /\ calls[c].pc = "scrape"
    /\ LET c0 == [calls[c] EXCEPT !.sess = o.s, !.scraped = TRUE]
       IN  SetCall(c,
                CASE o.res = "bundle" -> [c0 EXCEPT !.pc = "map"]
                  [] o.res \in ErrorPayloads ->
                        [c0 EXCEPT !.pc = "finally",
                                   !.response = Response(400, ErrorText(o.res))]
                  [] OTHER ->
                        [c0 EXCEPT !.pc = "finally",
                                   !.response = Response(500, "Failed to scrape website")])
    /\ lastPoll' = NoPoll
    /\ UNCHANGED <<jobs, tasks>>

ScrapeRun(c) ==
    /\ \E o \in ScrapeOutcomes(calls[c].in.url) : ScrapeReturn(c, o)
    /\ UNCHANGED <<validateVars, smsVars, sessionVars>>

\* extract_structured_data and the preview
ScrapeMap(c) ==
    /\ calls[c].kind = "scrape"
    /\ calls[c].pc = "map"
    /\ \E ok \in BOOLEAN :
          SetCall(c, [calls[c] EXCEPT
                        !.pc = "finally",
                        !.response = IF ok THEN Response(200, "ok")
                                     ELSE Response(500, "Failed to scrape website")])
    /\ lastPoll' = NoPoll
    /\ UNCHANGED <<jobs, tasks, validateVars, smsVars, sessionVars>>

ScrapeFinally_noclose(c) ==
    /\ calls[c].kind = "scrape"
    /\ calls[c].pc = "finally"
    /\ SetCall(c, [calls[c] EXCEPT !.pc = "done"])
    /\ lastPoll' = NoPoll
    /\ UNCHANGED <<jobs, tasks, validateVars, smsVars, sessionVars>>

\* finally: await scraper.close()
ScrapeFinally(c) ==
    /\ calls[c].kind = "scrape"
    /\ calls[c].pc = "finally"
    /\ SetCall(c, [calls[c] EXCEPT !.pc = "done",
                                   !.sess = WeddingScraper_close(@)])
    /\ lastPoll' = NoPoll
    /\ UNCHANGED <<jobs, tasks, validateVars, smsVars, sessionVars>>

\* ---- import_wedding_from_url -----------------------------------------------

\* pre-scraped data skips validation and scraping; else validation, then
\* WeddingScraper(), whose exception the handler turns into a 500
ImportBegin(c) ==
    /\ calls[c].pc = "idle"
    /\ \E in \in CallInputs, prefetched \in BOOLEAN, ctor_ok \in BOOLEAN :
          LET v == validate_url_for_ssrf(in.url, in.dns)
              c0 == [calls[c] EXCEPT !.kind = "import", !.in = in]
              c1 == [c0 EXCEPT !.verdict = v, !.nvalid = @ + 1]
          IN  SetCall(c,
                IF prefetched
                THEN [c0 EXCEPT !.pc = "store"]
                ELSE IF ~v.ok
                THEN [c1 EXCEPT !.pc = "done", !.response = Response(400, v.reason)]
                ELSE IF ctor_ok
                THEN [c1 EXCEPT !.pc = "scrape", !.sess = NewSession]
                ELSE [c1 EXCEPT !.pc = "done",
                                !.response = Response(500, "Failed to import wedding")])
    /\ lastPoll' = NoPoll
    /\ UNCHANGED <<jobs, tasks, validateVars, smsVars, sessionVars>>

\* raw_data = await scraper.scrape(request.url), which ends in outcome o
ImportReturn(c, o) ==
    /\ calls[c].kind = "import"
    /\ calls[c].pc = "scrape"
    /\ LET c0 == [calls[c] EXCEPT !.sess = o.s, !.scraped = TRUE]
       IN  SetCall(c,
                CASE o.res = "bundle" -> [c0 EXCEPT !.pc = "map"]
                  [] o.res \in ErrorPayloads ->
                        [c0 EXCEPT !.pc = "finally",
                                   !.response = Response(400, ErrorText(o.res))]
                  [] OTHER ->
                        [c0 EXCEPT !.pc = "finally",
                                   !.response = Response(500, "Failed to import wedding")])
    /\ lastPoll' = NoPoll
    /\ UNCHANGED <<jobs, tasks>>

ImportRun(c) ==
    /\ \E o \in ScrapeOutcomes(calls[c].in.url) : ImportReturn(c, o)
    /\ UNCHANGED <<validateVars, smsVars, sessionVars>>

ImportMap(c) ==
    /\ calls[c].kind = "import"
    /\ calls[c].pc = "map"
    /\ \E ok \in BOOLEAN :
          SetCall(c, IF ok THEN [calls[c] EXCEPT !.pc = "store"]
                     ELSE [calls[c] EXCEPT
                              !.pc = "finally",
                              !.response = Response(500, "Failed to import wedding")])
    /\ lastPoll' = NoPoll
    /\ UNCHANGED <<jobs, tasks, validateVars, smsVars, sessionVars>>

\* the partner-name check and the creation of the wedding rows
ImportStore(c) ==
    /\ calls[c].kind = "import"
    /\ calls[c].pc = "store"
    /\ \E r \in {Response(200, "ok"),
                 Response(400, "Could not extract partner names"),
                 Response(500, "Failed to import wedding")} :
          SetCall(c, [calls[c] EXCEPT !.pc = "finally", !.response = r])
    /\ lastPoll' = NoPoll
    /\ UNCHANGED <<jobs, tasks, validateVars, smsVars, sessionVars>>

\* finally: if scraper: await scraper.close()
ImportFinally(c) ==
    /\ calls[c].kind = "import"
    /\ calls[c].pc = "finally"
    /\ SetCall(c, [calls[c] EXCEPT
                      !.pc = "done",
                      !.sess = IF @.client # "none" THEN WeddingScraper_close(@)
                               ELSE @])
    /\ lastPoll' = NoPoll
    /\ UNCHANGED <<jobs, tasks, validateVars, smsVars, sessionVars>>

\* ---- start_scrape_job -------------------------------------------------------

NewJob == [NoJob EXCEPT !.status = "pending", !.message = "Starting..."]

NewTask(job_id, in) == [NoTask EXCEPT !.job_id = job_id, !.in = in, !.pc = "load"]

StartBegin_unchecked(c, in) ==
    /\ calls[c].pc = "idle"
    /\ LET v == validate_url_for_ssrf(in.url, in.dns)
       IN  SetCall(c, [calls[c] EXCEPT !.kind = "start", !.in = in, !.verdict = v,
                                       !.nvalid = @ + 1, !.pc = "create"])
    /\ lastPoll' = NoPoll
    /\ UNCHANGED <<jobs, tasks, validateVars, smsVars, sessionVars>>

\* validation, up to the commit of the new row
StartBegin(c, in) ==
    /\ calls[c].pc = "idle"
    /\ LET v == validate_url_for_ssrf(in.url, in.dns)
           c0 == [calls[c] EXCEPT !.kind = "start", !.in = in, !.verdict = v,
                                  !.nvalid = @ + 1]
       IN  SetCall(c,
             IF ~v.ok
             THEN [c0 EXCEPT !.pc = "done", !.response = Response(400, v.reason)]
             ELSE [c0 EXCEPT !.pc = "create"])
    /\ lastPoll' = NoPoll
    /\ UNCHANGED <<jobs, tasks, validateVars, smsVars, sessionVars>>

\* db.add(job); await db.commit(): the row gets a fresh id (uuid4)
StartCreate(c) ==
    /\ calls[c].kind = "start"
    /\ calls[c].pc = "create"
    /\ \/ /\ jobs' = [jobs EXCEPT ![c] = NewJob]
          /\ SetCall(c, [calls[c] EXCEPT !.pc = "refresh", !.job = c])
       \/ /\ SetCall(c, [calls[c] EXCEPT
                            !.pc = "done",
                            !.response = Response(500, "Internal Server Error")])
          /\ UNCHANGED jobs
    /\ lastPoll' = NoPoll
    /\ UNCHANGED <<tasks, validateVars, smsVars, sessionVars>>

\* await db.refresh(job); asyncio.create_task(run_scrape_job(job_id, url))
StartRefresh(c) ==
    /\ calls[c].kind = "start"
    /\ calls[c].pc = "refresh"
    /\ \/ /\ tasks' = [tasks EXCEPT ![c] = NewTask(calls[c].job, calls[c].in)]
          /\ SetCall(c, [calls[c] EXCEPT
                            !.pc = "done",
                            !.response = Response(200, "Scrape job started")])
       \/ /\ SetCall(c, [calls[c] EXCEPT
                            !.pc = "done",
                            !.response = Response(500, "Internal Server Error")])
          /\ UNCHANGED tasks
    /\ lastPoll' = NoPoll
    /\ UNCHANGED <<jobs, validateVars, smsVars, sessionVars>>

\* ---- run_scrape_job ---------------------------------------------------------
\* Every await db.commit() either writes the pending assignments to the row
\* or raises, and then the row keeps its committed state.

SetTask(t, rec) == tasks' = [tasks EXCEPT ![t] = rec]

Commit_anyrow(t, row) == jobs' = [jobs EXCEPT ![1] = row]

\* the executor's session commits to the row it loaded
Commit(t, row) == jobs' = [jobs EXCEPT ![tasks[t].job_id] = row]

Row(t) == jobs[tasks[t].job_id]

Crash(t) == [tasks[t] EXCEPT !.pc = "done", !.raised = TRUE, !.crashed = TRUE]

ToHandler(t) == [tasks[t] EXCEPT !.pc = "handler", !.raised = TRUE]

\* rec, after an await db.commit() or db.execute() of the task has raised
DbFailed(rec) == [rec EXCEPT !.dbfail = TRUE]

\* select(ScrapeJob).where(ScrapeJob.id == job_id)
TLoad(t) ==
    /\ tasks[t].pc = "load"
    /\ \/ SetTask(t, IF tasks[t].job_id \in JobIds
                     THEN [tasks[t] EXCEPT !.pc = "set_processing"]
                     ELSE [tasks[t] EXCEPT !.pc = "done"])
       \/ SetTask(t, DbFailed([tasks[t] EXCEPT !.pc = "done", !.crashed = TRUE]))
    /\ lastPoll' = NoPoll
    /\ UNCHANGED <<calls, jobs, validateVars, smsVars, sessionVars>>

TSetProcessing_statusless(t) ==
    /\ tasks[t].pc = "set_processing"
    /\ \/ /\ Commit(t, [Row(t) EXCEPT !.progress = 10,
                                      !.message = "Connecting to website..."])
          /\ SetTask(t, [tasks[t] EXCEPT !.pc = "loading"])
       \/ /\ SetTask(t, DbFailed(Crash(t)))
          /\ UNCHANGED jobs
    /\ lastPoll' = NoPoll
    /\ UNCHANGED <<calls, validateVars, smsVars, sessionVars>>

\* status = PROCESSING, progress = 10, commit: outside the try block
TSetProcessing(t) ==
    /\ tasks[t].pc = "set_processing"
    /\ \/ /\ Commit(t, [Row(t) EXCEPT !.status = "processing", !.progress = 10,
                                      !.message = "Connecting to website..."])
          /\ SetTask(t, [tasks[t] EXCEPT !.pc = "loading"])
       \/ /\ SetTask(t, DbFailed(Crash(t)))
          /\ UNCHANGED jobs
    /\ lastPoll' = NoPoll
    /\ UNCHANGED <<calls, validateVars, smsVars, sessionVars>>

\* WeddingScraper(), still outside the try block; then progress = 25, commit
TLoading(t) ==
    /\ tasks[t].pc = "loading"
    /\ \/ /\ SetTask(t, Crash(t))
          /\ UNCHANGED jobs
       \/ /\ Commit(t, [Row(t) EXCEPT !.progress = 25,
                                      !.message = "Loading main page..."])
          /\ SetTask(t, [tasks[t] EXCEPT !.pc = "scrape", !.sess = NewSession])
       \/ /\ SetTask(t, DbFailed([ToHandler(t) EXCEPT !.sess = NewSession]))
          /\ UNCHANGED jobs
    /\ lastPoll' = NoPoll
    /\ UNCHANGED <<calls, validateVars, smsVars, sessionVars>>

\* raw_data = await scraper.scrape(url), which ends in outcome o
TScrape(t, o) ==
    /\ tasks[t].pc = "scrape"
    /\ LET t0 == [tasks[t] EXCEPT !.sess = o.s, !.scraped = TRUE]
       IN  SetTask(t,
             CASE o.res = "bundle" -> [t0 EXCEPT !.pc = "extracting"]
               [] o.res \in ErrorPayloads ->
                     [t0 EXCEPT !.pc = "scrape_error", !.raised = TRUE,
                                !.payload = o.res]
               [] OTHER -> [t0 EXCEPT !.pc = "handler", !.raised = TRUE])
    /\ lastPoll' = NoPoll
    /\ UNCHANGED <<calls, jobs, validateVars, smsVars, sessionVars>>

\* "error" in raw_data: status = FAILED, error = raw_data["error"], commit
TScrapeError(t) ==
    /\ tasks[t].pc = "scrape_error"
    /\ \/ /\ Commit(t, [Row(t) EXCEPT !.status = "failed",
                                      !.error = ErrorText(tasks[t].payload)])
          /\ SetTask(t, [tasks[t] EXCEPT !.pc = "finally"])
       \/ /\ SetTask(t, DbFailed(ToHandler(t)))
          /\ UNCHANGED jobs
    /\ lastPoll' = NoPoll
    /\ UNCHANGED <<calls, validateVars, smsVars, sessionVars>>

TExtracting_storing(t) ==
    /\ tasks[t].pc = "extracting"
    /\ \/ /\ Commit(t, [Row(t) EXCEPT !.progress = 70,
                                      !.message = "Extracting wedding details...",
                                      !.scraped_data = "data"])
          /\ SetTask(t, [tasks[t] EXCEPT !.pc = "map"])
       \/ /\ SetTask(t, DbFailed(ToHandler(t)))
          /\ UNCHANGED jobs
    /\ lastPoll' = NoPoll
    /\ UNCHANGED <<calls, validateVars, smsVars, sessionVars>>

\* progress = 70, commit
TExtracting(t) ==
    /\ tasks[t].pc = "extracting"
    /\ \/ /\ Commit(t, [Row(t) EXCEPT !.progress = 70,
                                      !.message = "Extracting wedding details..."])
          /\ SetTask(t, [tasks[t] EXCEPT !.pc = "map"])
       \/ /\ SetTask(t, DbFailed(ToHandler(t)))
          /\ UNCHANGED jobs
    /\ lastPoll' = NoPoll
    /\ UNCHANGED <<calls, validateVars, smsVars, sessionVars>>

\* WeddingDataMapper().extract_structured_data and the preview
TMap(t) ==
    /\ tasks[t].pc = "map"
    /\ \/ SetTask(t, [tasks[t] EXCEPT !.pc = "completing"])
       \/ SetTask(t, ToHandler(t))
    /\ lastPoll' = NoPoll
    /\ UNCHANGED <<calls, jobs, validateVars, smsVars, sessionVars>>

\* status = COMPLETED, progress = 100, the results, commit
TCompleting(t) ==
    /\ tasks[t].pc = "completing"
    /\ \/ /\ Commit(t, [Row(t) EXCEPT !.status = "completed", !.progress = 100,
                                      !.message = "Complete!",
                                      !.platform = "platform",
                                      !.scraped_data = "data",
                                      !.preview_data = "preview"])
          /\ SetTask(t, [tasks[t] EXCEPT !.pc = "finally"])
       \/ /\ SetTask(t, DbFailed(ToHandler(t)))
          /\ UNCHANGED jobs
    /\ lastPoll' = NoPoll
    /\ UNCHANGED <<calls, validateVars, smsVars, sessionVars>>

THandler_resetting(t) ==
    /\ tasks[t].pc = "handler"
    /\ \/ /\ Commit(t, [Row(t) EXCEPT !.status = "failed", !.error = "exception",
                                      !.progress = 0])
          /\ SetTask(t, [tasks[t] EXCEPT !.pc = "finally"])
       \/ /\ SetTask(t, DbFailed([tasks[t] EXCEPT !.pc = "finally", !.crashed = TRUE]))
          /\ UNCHANGED jobs
    /\ lastPoll' = NoPoll
    /\ UNCHANGED <<calls, validateVars, smsVars, sessionVars>>

\* except Exception: status = FAILED, error = str(e), commit
THandler(t) ==
    /\ tasks[t].pc = "handler"
    /\ \/ /\ Commit(t, [Row(t) EXCEPT !.status = "failed", !.error = "exception"])
          /\ SetTask(t, [tasks[t] EXCEPT !.pc = "finally"])
       \/ /\ SetTask(t, DbFailed([tasks[t] EXCEPT !.pc = "finally", !.crashed = TRUE]))
          /\ UNCHANGED jobs
    /\ lastPoll' = NoPoll
    /\ UNCHANGED <<calls, validateVars, smsVars, sessionVars>>

\* finally: await scraper.close()
TFinally(t) ==
    /\ tasks[t].pc = "finally"
    /\ SetTask(t, [tasks[t] EXCEPT !.pc = "done",
                                   !.sess = WeddingScraper_close(@)])
    /\ lastPoll' = NoPoll
    /\ UNCHANGED <<calls, jobs, validateVars, smsVars, sessionVars>>

\* ---- get_scrape_job_status --------------------------------------------------

JobStatusResponse(job_id, job) ==
    LET base == [NoPoll EXCEPT !.job_id = job_id, !.http = 200,
                               !.status = job.status, !.progress = job.progress,
                               !.message = job.message]
    IN  IF job.status = "completed"
        THEN [base EXCEPT !.platform = job.platform, !.data = job.scraped_data,
                          !.preview = job.preview_data]
        ELSE IF job.status = "failed"
        THEN [base EXCEPT !.error = job.error]
        ELSE base

get_scrape_job_status(job_id) ==
    /\ lastPoll' = IF job_id \in JobIds
                   THEN JobStatusResponse(job_id, jobs[job_id])
                   ELSE [NoPoll EXCEPT !.job_id = job_id, !.http = 404]
    /\ UNCHANGED <<calls, jobs, tasks, validateVars, smsVars, sessionVars>>

Next ==
    \/ \E c \in Calls : ScrapeBegin(c)
    \/ \E c \in Calls : ScrapeRun(c)
    \/ \E c \in Calls : ScrapeMap(c)
    \/ \E c \in Calls : ScrapeFinally(c)
    \/ \E c \in Calls : ImportBegin(c)
    \/ \E c \in Calls : ImportRun(c)
    \/ \E c \in Calls : ImportMap(c)
    \/ \E c \in Calls : ImportStore(c)
    \/ \E c \in Calls : ImportFinally(c)
    \/ \E c \in Calls, in \in CallInputs : StartBegin(c, in)
    \/ \E c \in Calls : StartCreate(c)
    \/ \E c \in Calls : StartRefresh(c)
    \/ \E t \in Slots : TLoad(t)
    \/ \E t \in Slots : TSetProcessing(t)
    \/ \E t \in Slots : TLoading(t)
    \/ \E t \in Slots :
          \E o \in ScrapeOutcomes(tasks[t].in.url) : TScrape(t, o)
    \/ \E t \in Slots : TScrapeError(t)
    \/ \E t \in Slots : TExtracting(t)
    \/ \E t \in Slots : TMap(t)
    \/ \E t \in Slots : TCompleting(t)
    \/ \E t \in Slots : THandler(t)
    \/ \E t \in Slots : TFinally(t)
    \/ \E j \in Slots : get_scrape_job_status(j)

Init == ValidateIdle /\ SessionIdle /\ JobsIdle /\ SmsIdle

\* Spec: requests to the three entry points, each followed to its end
Spec == Init /\ [][Next]_vars

\* JobsSpec: concurrent background jobs and their polls.  It follows the job
\* rows: of the URLs it keeps one that passes validation and one that does
\* not, and of the outcomes of scrape() those that needed no browser.
JobInputs ==
    {in \in CallInputs : in.url.hostname = "example.org"}

JobScrapeOutcomes == {o \in ScrapeOutcomesPlain : o.s = NewSession}

JobsNext ==
    \/ \E c \in JobCalls, in \in JobInputs : StartBegin(c, in)
    \/ \E c \in JobCalls : StartCreate(c)
    \/ \E c \in JobCalls : StartRefresh(c)
    \/ \E t \in Slots : TLoad(t)
    \/ \E t \in Slots : TSetProcessing(t)
    \/ \E t \in Slots : TLoading(t)
    \/ \E t \in Slots, o \in JobScrapeOutcomes : TScrape(t, o)
    \/ \E t \in Slots : TScrapeError(t)
    \/ \E t \in Slots : TExtracting(t)
    \/ \E t \in Slots : TMap(t)
    \/ \E t \in Slots : TCompleting(t)
    \/ \E t \in Slots : THandler(t)
    \/ \E t \in Slots : TFinally(t)
    \/ \E j \in Slots : get_scrape_job_status(j)

JobsSpec == Init /\ [][JobsNext]_vars

(***************************************************************************)
(* RunSpec: one request to one entry point, with its scrape() followed     *)
(* step by step: the session of ScrapeSpec is the scraper of the request.  *)
(***************************************************************************)
RunCalls == {c \in Calls : c = 1}

RunInputs ==
    CallInputs \cup {[url |-> [scheme |-> "https", hostname |-> "theknot.com"],
                      dns |-> PublicDns]}

\* scraper.scrape(url) of request c has been called and has not returned
Scraping(c) ==
    \/ calls[c].pc = "scrape"
    \/ tasks[c].pc = "scrape"

RConstruct(c) ==
    /\ Scraping(c)
    /\ SConstruct
    /\ sreq' = _should_use_browser(calls[c].in.url)

RFetchRoot(c) == Scraping(c) /\ SFetchRoot

RDiscover(c) == Scraping(c) /\ SDiscover

RStartSub(c) == Scraping(c) /\ SStartSub

RFetchSub(c) == Scraping(c) /\ SFetchSub

RAssemble(c) == Scraping(c) /\ SAssemble

\* what scrape() returns to its caller
Returned == [s |-> sess, res |-> sres]

RScrapeReturn(c) ==
    /\ spc = "returned"
    /\ ScrapeReturn(c, Returned)
    /\ UNCHANGED <<validateVars, smsVars, sessionVars>>

RImportReturn(c) ==
    /\ spc = "returned"
    /\ ImportReturn(c, Returned)
    /\ UNCHANGED <<validateVars, smsVars, sessionVars>>

RTaskReturn(c) ==
    /\ spc = "returned"
    /\ TScrape(c, Returned)

RunNext ==
    \/ \E c \in RunCalls : ScrapeBegin(c)
    \/ \E c \in RunCalls : ImportBegin(c)
    \/ \E c \in RunCalls, in \in RunInputs : StartBegin(c, in)
    \/ \E c \in RunCalls : RConstruct(c)
    \/ \E c \in RunCalls : RFetchRoot(c)
    \/ \E c \in RunCalls : RDiscover(c)
    \/ \E c \in RunCalls : RStartSub(c)
    \/ \E c \in RunCalls : RFetchSub(c)
    \/ \E c \in RunCalls : RAssemble(c)
    \/ \E c \in RunCalls : RScrapeReturn(c)
    \/ \E c \in RunCalls : RImportReturn(c)
    \/ \E c \in RunCalls : RTaskReturn(c)
    \/ \E c \in RunCalls : ScrapeMap(c)
    \/ \E c \in RunCalls : ScrapeFinally(c)
    \/ \E c \in RunCalls : ImportMap(c)
    \/ \E c \in RunCalls : ImportStore(c)
    \/ \E c \in RunCalls : ImportFinally(c)
    \/ \E c \in RunCalls : StartCreate(c)
    \/ \E c \in RunCalls : StartRefresh(c)
    \/ \E t \in RunCalls : TLoad(t)
    \/ \E t \in RunCalls : TSetProcessing(t)
    \/ \E t \in RunCalls : TLoading(t)
    \/ \E t \in RunCalls : TScrapeError(t)
    \/ \E t \in RunCalls : TExtracting(t)
    \/ \E t \in RunCalls : TMap(t)
    \/ \E t \in RunCalls : TCompleting(t)
    \/ \E t \in RunCalls : THandler(t)
    \/ \E t \in RunCalls : TFinally(t)
    \/ \E j \in RunCalls : get_scrape_job_status(j)

RunSpec == Init /\ [][RunNext]_vars

\* The links whose fetch has been started, in the order of the starts
Attempted == [i \in DOMAIN spages |-> [url |-> spages[i].url, name |-> spages[i].name]]

\* C15: within one scrape at most one sub-page fetch is in flight and it is
\* the last one started, after the fetch of the main page has finished; the
\* fetches started so far followed by the ones still to start are the
\* discovered links without the skipped ones, in discovery order.
ThmC15_SequentialInDiscoveryOrder ==
    /\ Cardinality(InFlight) <= 1
    /\ \A i \in InFlight : i = Len(spages)
    /\ spages # <<>> => (slast.n >= Len(spages) /\ spc # "root")
    /\ Attempted \o stodo = pages_to_scrape(slinks)

WitC15_SecondFetchAfterFirst ==
    /\ Len(slinks) = 2
    /\ Len(spages) = 2
    /\ spages[1].st = "skipped"
    /\ spages[2].st = "inflight"
    /\ slast.n = 2

FetchedUrls == {spages[i].url : i \in DOMAIN spages}

AvailableUrls == {savail[i].url : i \in DOMAIN savail}

\* C18: every discovered link whose name contains a skip keyword is in
\* pages_available with its name and URL and its URL is never fetched; every
\* other link is absent from pages_available and has been fetched when the
\* bundle is returned; no URL is both fetched and in pages_available, and
\* neither set holds anything that was not discovered.
ThmC18_SkippedLinksOnlyNoted ==
    /\ \A i \in DOMAIN slinks :
          LET l == slinks[i]
          IN  IF HasSkipKeyword(l.name)
              THEN /\ \E j \in DOMAIN savail : savail[j] = l
                   /\ l.url \notin FetchedUrls
              ELSE /\ l.url \notin AvailableUrls
                   /\ sres = "bundle" => l.url \in FetchedUrls
    /\ FetchedUrls \cap AvailableUrls = {}
    /\ FetchedUrls \cup AvailableUrls \subseteq {slinks[i].url : i \in DOMAIN slinks}

WitC18_OneNotedOneFetched ==
    /\ sres = "bundle"
    /\ Len(slinks) = 2
    /\ savail = <<[url |-> 1, name |-> <<"our", "photo", "s">>]>>
    /\ Len(spages) = 1
    /\ spages[1].url = 2
    /\ spages[1].st = "stored"

\* The fetch of the main page has returned None
RootFailed == slast.n = 1 /\ slast.res = "none"

RootFailedHandled ==
    RootFailed =>
        /\ spc = "returned"
        /\ sres = RootError(sreq)
        /\ slinks = <<>> /\ spages = <<>>
        /\ \A c \in RunCalls :
              /\ calls[c].pc \notin {"map", "store"}
              /\ tasks[c].pc \notin {"extracting", "map", "completing"}
              /\ jobs[c].status # "completed"
              /\ (calls[c].kind \in {"scrape", "import"}
                    /\ calls[c].pc \in {"finally", "done"})
                    => calls[c].response = Response(400, ErrorText(sres))
              /\ (tasks[c].pc = "done" /\ ~tasks[c].dbfail)
                    => (Row(c).status = "failed" /\ Row(c).error = ErrorText(sres))

LastStored(n) ==
    LET S == {i \in DOMAIN spages : spages[i].name = n /\ spages[i].st = "stored"}
    IN  IF S = {} THEN 0
        ELSE spages[CHOOSE i \in S : \A j \in S : j <= i].url

SmsInit ==
    /\ guests \in [Guests -> {Guest(FALSE, consent) : consent \in BOOLEAN}]
    /\ logs = <<>>
    /\ blast = IdleBlast
    /\ \E ids \in SUBSET Guests \ {{}} :
          sched = [NoScheduledMessage EXCEPT !.status = "scheduled", !.ids = ids]
    /\ retry = IdleRetry
    /\ lastSms = NoSms
    /\ ValidateIdle
    /\ SessionIdle
    /\ JobsIdle

\* get_eligible_recipients and get_target_guests: the guests of the filter
\* with sms_consent and without opted_out, as the committed rows say
get_eligible_recipients(ids) ==
    SelectSeq([g \in Guests |-> g],
              LAMBDA g : g \in ids /\ guests[g].sms_consent /\ ~guests[g].opted_out)

\* twilio_service.send_sms: a dict with success, a dict without (Twilio
\* refused), or another exception
SendResults == {"success", "failed", "raise"}

\* Twilio accepts the message for the guest's number; opted says whether
\* the opt-out of the guest was committed at that time
Accepted(g, by) ==
    lastSms' = [guest |-> g, by |-> by, opted |-> guests[g].opted_out]

\* The rows the model still has room for
Room ==
    MaxLogs - Len(logs) - Len(blast.todo) - Len(blast.pending)
            - Len(sched.todo) - Len(sched.pending)

\* send_sms_blast, up to the loop: no eligible recipient ends it with a 400
send_sms_blast(ids) ==
    /\ blast.pc = "idle"
    /\ LET recipients == get_eligible_recipients(ids)
       IN  /\ Len(recipients) <= Room
           /\ blast' = IF recipients = <<>>
                       THEN [blast EXCEPT !.pc = "done"]
                       ELSE [blast EXCEPT !.pc = "sending", !.todo = recipients]
    /\ UNCHANGED <<guests, logs, sched, retry, lastSms>>
    /\ UNCHANGED <<validateVars, sessionVars, jobVars>>

\* send_sms_blast: send_sms for the next recipient and db.add(log); an
\* exception ends the request and its session with it
BlastSend ==
    /\ blast.pc = "sending"
    /\ blast.todo # <<>>
    /\ \E result \in SendResults :
          LET guest == Head(blast.todo)
          IN  CASE result = "success" ->
                     /\ Accepted(guest, "blast")
                     /\ blast' = [blast EXCEPT !.todo = Tail(@),
                                    !.pending = Append(@, MessageLog(guest, "queued", TRUE))]
                [] result = "failed" ->
                     /\ blast' = [blast EXCEPT !.todo = Tail(@),
                                    !.pending = Append(@, MessageLog(guest, "failed", FALSE))]
                     /\ UNCHANGED lastSms
                [] OTHER ->
                     /\ blast' = [pc |-> "done", todo |-> <<>>, pending |-> <<>>]
                     /\ UNCHANGED lastSms
    /\ UNCHANGED <<guests, logs, sched, retry>>
    /\ UNCHANGED <<validateVars, sessionVars, jobVars>>

\* send_sms_blast: the commit after the loop
BlastCommit ==
    /\ blast.pc = "sending"
    /\ blast.todo = <<>>
    /\ logs' = logs \o blast.pending
    /\ blast' = [pc |-> "done", todo |-> <<>>, pending |-> <<>>]
    /\ UNCHANGED <<guests, sched, retry, lastSms>>
    /\ UNCHANGED <<validateVars, sessionVars, jobVars>>

\* process_fixed_schedules and send_scheduled_message up to the loop: the
\* message goes to "sending" and its guests are loaded
send_scheduled_message ==
    /\ sched.pc = "idle"
    /\ sched.status = "scheduled"
    /\ LET target_guests == get_eligible_recipients(sched.ids)
       IN  /\ Len(target_guests) <= Room
           /\ sched' = [sched EXCEPT !.status = "sending", !.pc = "sending",
                                     !.todo = target_guests]
    /\ UNCHANGED <<guests, logs, blast, retry, lastSms>>
    /\ UNCHANGED <<validateVars, sessionVars, jobVars>>

\* send_scheduled_message: the next guest of the loaded list; the test of
\* guest.opted_out reads the loaded object, which the query has filtered
ScheduledSend ==
    /\ sched.pc = "sending"
    /\ sched.todo # <<>>
    /\ \E result \in SendResults :
          LET guest == Head(sched.todo)
          IN  CASE result = "success" ->
                     /\ Accepted(guest, "scheduled")
                     /\ sched' = [sched EXCEPT !.todo = Tail(@),
                                    !.pending = Append(@, MessageLog(guest, "sent", TRUE)),
                                    !.sent_count = @ + 1]
                [] result = "failed" ->
                     /\ sched' = [sched EXCEPT !.todo = Tail(@),
                                    !.pending = Append(@, MessageLog(guest, "failed", FALSE)),
                                    !.failed_count = @ + 1]
                     /\ UNCHANGED lastSms
                [] OTHER ->
                     /\ sched' = [sched EXCEPT !.todo = Tail(@), !.failed_count = @ + 1]
                     /\ UNCHANGED lastSms
    /\ UNCHANGED <<guests, logs, blast, retry>>
    /\ UNCHANGED <<validateVars, sessionVars, jobVars>>

\* send_scheduled_message: the status of the message and the commit
ScheduledCommit ==
    /\ sched.pc = "sending"
    /\ sched.todo = <<>>
    /\ logs' = logs \o sched.pending
    /\ sched' = [sched EXCEPT !.pc = "done", !.pending = <<>>,
                   !.status = IF sched.failed_count = 0 THEN "sent"
                              ELSE IF sched.sent_count > 0 THEN "partial" ELSE "failed"]
    /\ UNCHANGED <<guests, blast, retry, lastSms>>
    /\ UNCHANGED <<validateVars, sessionVars, jobVars>>

\* retry_failed_messages: the query for the failed logs with retry_count < 3
retry_failed_messages ==
    /\ retry.pc = "idle"
    /\ retry' = [pc |-> "retrying",
                 todo |-> SelectSeq([i \in DOMAIN logs |-> i],
                                    LAMBDA i : /\ logs[i].status = "failed"
                                               /\ logs[i].retry_count < MAX_RETRIES)]
    /\ UNCHANGED <<guests, logs, blast, sched, lastSms>>
    /\ UNCHANGED <<validateVars, sessionVars, jobVars>>

\* retry_failed_messages: send_sms for the next loaded log and the commit
RetrySend ==
    /\ retry.pc = "retrying"
    /\ retry.todo # <<>>
    /\ logs[Head(retry.todo)].resends < MaxResends
    /\ \E result \in SendResults :
          LET i == Head(retry.todo)
          IN  IF result = "success"
              THEN /\ Accepted(logs[i].guest, "retry")
                   /\ logs' = [logs EXCEPT ![i].status = "sent", ![i].sid = TRUE,
                                           ![i].resends = @ + 1]
              ELSE /\ logs' = [logs EXCEPT ![i].retry_count = @ + 1,
                                           ![i].resends = @ + 1]
                   /\ UNCHANGED lastSms
    /\ retry' = [retry EXCEPT !.todo = Tail(@)]
    /\ UNCHANGED <<guests, blast, sched>>
    /\ UNCHANGED <<validateVars, sessionVars, jobVars>>

\* retry_failed_messages returns; the scheduler runs it again later
RetryReturn ==
    /\ retry.pc = "retrying"
    /\ retry.todo = <<>>
    /\ retry' = IdleRetry
    /\ UNCHANGED <<guests, logs, blast, sched, lastSms>>
    /\ UNCHANGED <<validateVars, sessionVars, jobVars>>

\* sms_inbound_webhook: a body with an opt-out keyword opts out the guests
\* of the number
sms_inbound_webhook(From, opt_out) ==
    /\ guests' = IF opt_out THEN [guests EXCEPT ![From].opted_out = TRUE] ELSE guests
    /\ UNCHANGED <<logs, blast, sched, retry, lastSms>>
    /\ UNCHANGED <<validateVars, sessionVars, jobVars>>

MessageStatuses == {"sent", "delivered", "undelivered", "failed"}

\* sms_status_webhook: the log with the MessageSid gets the MessageStatus
sms_status_webhook(i, MessageStatus) ==
    /\ i \in DOMAIN logs
    /\ logs[i].sid
    /\ logs' = [logs EXCEPT ![i].status = MessageStatus]
    /\ UNCHANGED <<guests, blast, sched, retry, lastSms>>
    /\ UNCHANGED <<validateVars, sessionVars, jobVars>>

SmsNext ==
    \/ \E ids \in SUBSET Guests : send_sms_blast(ids)
    \/ BlastSend
    \/ BlastCommit
    \/ send_scheduled_message
    \/ ScheduledSend
    \/ ScheduledCommit
    \/ retry_failed_messages
    \/ RetrySend
    \/ RetryReturn
    \/ \E From \in Guests, opt_out \in BOOLEAN : sms_inbound_webhook(From, opt_out)
    \/ \E i \in 1..MaxLogs, st \in MessageStatuses : sms_status_webhook(i, st)

SmsSpec == SmsInit /\ [][SmsNext]_vars

\* C29: no SMS is sent to a guest whose opt-out the inbound webhook has
\* committed, not by a blast, not by the scheduled message and not by a
\* retry.
CexC29_NoSendAfterOptOut ==
    ~lastSms.opted

\* C30: retry_failed_messages sends a message log again at most 3 times,
\* whatever status webhooks arrive between its runs, and never sends a log
\* again whose status is "sent".
CexC30_AtMostThreeResends ==
    /\ [](\A i \in DOMAIN logs : logs[i].resends <= 3)
    /\ [][\A i \in DOMAIN logs :
             logs[i].status = "sent" => logs'[i].resends = logs[i].resends]_vars

(***************************************************************************)
(* Properties of the requests (Spec) and of the jobs (JobsSpec).           *)
(***************************************************************************)
Rejected(c) ==
    /\ calls[c].pc = "done"
    /\ calls[c].nvalid > 0
    /\ ~calls[c].verdict.ok

\* C2: at each of the three entry points a URL that validation rejects ends
\* the request with the rejection reason; no job row and no executor task is
\* created for it, no fetch is issued, and the URL is validated once only.
ThmC2_RejectionIsTerminal ==
    \A c \in Calls :
        Rejected(c) =>
            /\ calls[c].response = Response(400, calls[c].verdict.reason)
            /\ calls[c].nvalid = 1
            /\ calls[c].job = 0 /\ jobs[c] = NoJob /\ tasks[c] = NoTask
            /\ ~calls[c].scraped /\ calls[c].sess = NoSession

WitC2_StartRejected ==
    \E c \in Calls :
        /\ Rejected(c)
        /\ calls[c].kind = "start"
        /\ calls[c].verdict.reason = "Access to private IP addresses is not allowed"

MetadataCall(c) ==
    /\ calls[c].nvalid > 0
    /\ calls[c].in.url = [scheme |-> "http", hostname |-> "169.254.169.254"]

\* C25 as stated: http://169.254.169.254/wedding is rejected with the reason
\* that access to private IP addresses is not allowed, and nothing is
\* fetched for it.
CexC25_MetadataIsPrivateIp ==
    \A c \in Calls :
        MetadataCall(c) =>
            /\ calls[c].verdict =
                  Verdict(FALSE, "Access to private IP addresses is not allowed")
            /\ ~calls[c].scraped /\ calls[c].sess = NoSession

\* C25, amended: http://169.254.169.254/wedding is rejected by the list of
\* blocked hostnames, with the reason that access to internal resources is
\* not allowed; the request ends with that reason as a 400, and no scraper
\* is built, no fetch issued and no job created for it.
ThmC25_MetadataIsBlockedHost ==
    \A c \in Calls :
        MetadataCall(c) =>
            /\ calls[c].verdict =
                  Verdict(FALSE, "Access to internal resources is not allowed")
            /\ calls[c].pc = "done"
            /\ calls[c].response = Response(400, calls[c].verdict.reason)
            /\ ~calls[c].scraped /\ calls[c].sess = NoSession
            /\ calls[c].job = 0 /\ jobs[c] = NoJob /\ tasks[c] = NoTask

WitC25_MetadataScrapeRejected ==
    \E c \in Calls :
        /\ MetadataCall(c)
        /\ calls[c].kind = "scrape"
        /\ calls[c].response.status = 400

StatusSteps ==
    {<<"absent", "pending">>, <<"pending", "processing">>,
     <<"processing", "completed">>, <<"processing", "failed">>}

\* C3: the status of a job changes only along absent -> PENDING ->
\* PROCESSING -> COMPLETED or FAILED, so a COMPLETED or FAILED job keeps its
\* status in every later step, and a job whose executor has run scrape() has
\* left PENDING.
ThmC3_StatusStateMachine ==
    [][ /\ \A j \in Slots :
              jobs'[j].status # jobs[j].status =>
                  <<jobs[j].status, jobs'[j].status>> \in StatusSteps
        /\ \A t \in Slots :
              tasks'[t].scraped => jobs'[tasks'[t].job_id].status # "pending" ]_vars

WitC3_PolledAfterCompletion ==
    \E j \in Slots :
        /\ jobs[j].status = "completed"
        /\ tasks[j].pc = "done"
        /\ lastPoll.job_id = j

\* C4: a run_scrape_job that raised or got an error payload after loading
\* its row has, once it is over, left the row FAILED with an error.
CexC4_RaiseEndsFailed ==
    \A t \in Slots :
        (tasks[t].pc = "done" /\ tasks[t].raised) =>
            /\ Row(t).status = "failed"
            /\ Row(t).error # "null"

\* C5: a row holds scraped_data or preview_data only when COMPLETED and an
\* error only when FAILED; a poll response carries data, preview or platform
\* only with status COMPLETED and an error only with status FAILED.
ThmC5_PayloadMatchesStatus ==
    /\ \A j \in Slots :
          /\ (jobs[j].scraped_data # "null" \/ jobs[j].preview_data # "null")
                => jobs[j].status = "completed"
          /\ jobs[j].error # "null" => jobs[j].status = "failed"
    /\ (lastPoll.data # "null" \/ lastPoll.preview # "null"
            \/ lastPoll.platform # "null") => lastPoll.status = "completed"
    /\ lastPoll.error # "null" => lastPoll.status = "failed"

WitC5_PolledFailure ==
    /\ lastPoll.http = 200
    /\ lastPoll.status = "failed"
    /\ lastPoll.error # "null"
    /\ lastPoll.data = "null"

\* C6: the progress of every row stays in 0..100, never decreases from one
\* committed state to the next, and is 100 exactly in the COMPLETED rows.
ThmC6_ProgressMonotone ==
    [][ \A j \in Slots :
            /\ jobs'[j].progress \in 0..100
            /\ jobs'[j].progress >= jobs[j].progress
            /\ (jobs'[j].progress = 100) <=> (jobs'[j].status = "completed") ]_vars

WitC6_FailedAtSeventy ==
    \E j \in Slots :
        /\ jobs[j].status = "failed"
        /\ jobs[j].progress = 70
        /\ tasks[j].pc = "done"

\* C7: a job whose creating request is over and whose executor is over, or
\* was never started, is COMPLETED or FAILED: no step is left that could
\* take it there.
CexC7_FinishedJobIsTerminal ==
    \A c \in Slots :
        (/\ calls[c].kind = "start" /\ calls[c].pc = "done"
         /\ jobs[c] # NoJob
         /\ tasks[c].pc \in {"none", "done"})
            => jobs[c].status \in {"completed", "failed"}

\* C8: no job id has two executors; a row that exists changes only in a
\* step of the running executor of its own id; a poll changes no row.
ThmC8_SingleWriter ==
    [][ /\ \A j \in Slots :
              Cardinality({t \in Slots : tasks'[t].pc # "none"
                                         /\ tasks'[t].job_id = j}) <= 1
        /\ \A j \in Slots :
              (jobs[j] # NoJob /\ jobs'[j] # jobs[j]) =>
                  \E t \in Slots :
                      /\ tasks[t].job_id = j
                      /\ tasks[t].pc \notin {"none", "done"}
                      /\ tasks'[t] # tasks[t]
        /\ lastPoll' # NoPoll => jobs' = jobs ]_vars

WitC8_TwoJobsRunning ==
    \E j1, j2 \in Slots :
        /\ j1 # j2
        /\ jobs[j1].status = "processing" /\ tasks[j1].pc = "map"
        /\ jobs[j2].status = "completed"
        /\ lastPoll.job_id = j1

Released(s) ==
    /\ s.client = "closed"
    /\ ~s.rBrowser /\ ~s.rContext /\ ~s.rPage

ValidateInit ==
    /\ vin \in [url : Urls, dns : DnsAnswers]
    /\ vout = <<>>
    /\ SessionIdle
    /\ JobsIdle
    /\ SmsIdle

Validate ==
    /\ vout = <<>>
    /\ vout' = <<validate_url_for_ssrf(vin.url, vin.dns)>>
    /\ UNCHANGED <<vin, smsVars>>
    /\ UNCHANGED <<sessionVars, jobVars>>

ValidateNext == Validate

ValidateSpec == ValidateInit /\ [][ValidateNext]_vars

\* The addresses a validated host stands for: itself when it is an address
\* literal, else what DNS answered
IsBadAddr(ip) ==
    IPFlags(ip) \cap {"loopback", "private", "link_local", "reserved", "multicast"} # {}

\* C1: validate_url_for_ssrf returns ok only if the scheme is http or https,
\* the hostname resolves, and neither the literal host nor any resolved
\* address is loopback, private, link-local, reserved or multicast; a DNS
\* resolution failure yields not-ok.
ThmC1_ValidateOkOnlyIfSafe ==
    vout # <<>> =>
        LET h == Lower(vin.url.hostname)
        IN  /\ vout[1].ok =>
                /\ Lower(vin.url.scheme) \in {"http", "https"}
                /\ h # ""
                /\ h \in IPLiterals => ~IsBadAddr(h)
                /\ h \notin IPLiterals =>
                      /\ vin.dns.status = "ok"
                      /\ vin.dns.addrs # {}
                      /\ \A ip \in vin.dns.addrs : ~IsBadAddr(ip)
            /\ (h \notin IPLiterals /\ vin.dns.status = "gaierror") => ~vout[1].ok

WitC1_RejectedByDns ==
    /\ vout # <<>>
    /\ ~vout[1].ok
    /\ Lower(vin.url.scheme) = "https"
    /\ vin.url.hostname = "example.org"
    /\ vin.dns = [status |-> "ok", addrs |-> {"93.184.216.34", "10.0.0.5"}]

\* What the scheme check and the host and address checks find for a URL
ChecksOf(url, dns) ==
    LET hostname == Lower(url.hostname)
    IN  [scheme |-> Lower(url.scheme) \in {"http", "https"},
         host |-> hostname # "",
         blocked |-> hostname \in blocked_hostnames,
         literal |-> hostname \in IPLiterals,
         private |-> is_private_ip(hostname),
         dns |-> dns.status,
         resolved |-> \E ip \in dns.addrs : is_private_ip(ip)]

AllowListed(url) == IsAllowedDomain(Lower(url.hostname))

\* C26: the verdict does not depend on the allow-list of domains: two URLs
\* for which the scheme check and the host and address checks find the same
\* get the same verdict, allow-listed or not, and a public domain that is
\* not allow-listed is accepted.
ThmC26_AllowListIsAdvisory ==
    vout # <<>> =>
        /\ \A url \in Urls, dns \in DnsAnswers :
              ChecksOf(url, dns) = ChecksOf(vin.url, vin.dns)
                  => validate_url_for_ssrf(url, dns).ok = vout[1].ok
        /\ (/\ ~AllowListed(vin.url)
            /\ ChecksOf(vin.url, vin.dns) =
                  [scheme |-> TRUE, host |-> TRUE, blocked |-> FALSE, literal |-> FALSE,
                   private |-> FALSE, dns |-> "ok", resolved |-> FALSE])
              => vout[1] = Verdict(TRUE, "")

WitC26_UnlistedDomainAccepted ==
    /\ vout # <<>>
    /\ vin.url.hostname = "example.org"
    /\ ~AllowListed(vin.url)
    /\ vout[1].ok
    /\ \E url \in Urls :
          AllowListed(url) /\ ChecksOf(url, vin.dns) = ChecksOf(vin.url, vin.dns)

====
